---- MODULE Spec2Model ----
(***************************************************************************)
(* Hybrid authentication and on-chain entitlement gateway of RefiStudio:   *)
(* the signed wallet-session cookie codec (server and Web Crypto builds),  *)
(* the SIWE nonce / verify handshake, the session reconciler and the NFT   *)
(* ownership resolver, modelled as state machines over small input sets.   *)
(*                                                                         *)
(* Cryptography is modelled symbolically: an HMAC is the pair of its key   *)
(* and its message, so two MACs are equal exactly when key and message     *)
(* are; base64url text and JSON text are tagged values with their own      *)
(* encoders and partial decoders.                                          *)
(***************************************************************************)
EXTENDS Integers, Sequences, FiniteSets, TLC

VARIABLES
    now,          \* Date.now() / 1000, in seconds
    env,          \* process.env: INTERNAL_API_SECRET, BETTER_AUTH_SECRET, ENCRYPTION_KEY
    cachedKey,    \* internal-secret.ts: module-level cachedKey
    redisUrl,     \* env.REDIS_URL is set
    redisClient,  \* getRedisClient() returns a client
    store,        \* the shared store: nonce -> second at which the key expires (0: no key)
    issued,       \* nonces the nonce endpoint has returned
    users,        \* rows of the user table
    req,          \* the verify requests: position in the handler, inputs, response
    last,         \* codec: the last codec call, its input and its result
    sess,         \* getSession: the last call, its inputs and its result
    chain,        \* the gating contract: token identifier -> owner, enumeration support
    nftEnv,       \* process.env of the resolver: contract address, tier lists
    rv,           \* the resolver run: position, values read, reads issued, outcome
    access,       \* the caller's row of userNftAccess, Null when there is none
    gd,           \* the guarded call: position, options, context, calls made, outcome
    tc,           \* the last call of a tier function: its argument and its result
    dc,           \* OAuth disconnect: the account rows and the last request
    st,           \* socket token: the last request and its response
    wh,           \* Conductor webhook: the last request, what ran and its response
    poll,         \* pollForSignal: position, elapsed time, responses seen, result
    kb,           \* knowledge store: the documents and chunks caches, requests made
    kl            \* useKnowledgeBasesList: the store's list flags, the hook's state

vars == <<now, env, cachedKey, redisUrl, redisClient, store, issued, users, req, last,
          sess, chain, nftEnv, rv, access, gd, tc, dc, st, wh, poll, kb, kl>>

handshakeVars == <<redisUrl, redisClient, store, issued, users, req>>
codecVars == <<last>>
sessionVars == <<sess>>
resolveVars == <<chain, nftEnv, rv>>
guardVars == <<access, gd>>
tierVars == <<tc>>
routeVars == <<dc, st, wh, poll>>
knowledgeVars == <<kb, kl>>
\* what the handshake, the codec calls, getSession and the resolver leave alone
outsideHandshake == <<last, sess, chain, nftEnv, rv, access, gd, tc, routeVars, knowledgeVars>>
outsideCodec == <<redisUrl, redisClient, store, issued, users, req, sess, chain, nftEnv, rv,
                  access, gd, tc, routeVars, knowledgeVars>>

(***************************************************************************)
(* Bounds of the model.                                                    *)
(***************************************************************************)
MaxTime == 301
MaxClock == 2

(***************************************************************************)
(* Program constants.                                                      *)
(***************************************************************************)
NONCE_TTL_SECONDS == 300
CookieValiditySeconds == 86400
MinExplicitSecretLength == 32
HmacSha256Bytes == 32

Nonces == {"n1", "n2"}
\* a nonce text the nonce endpoint never returned
UnknownNonce == "n0"
ReqIds == {"r1", "r2"}
TickSteps == {NONCE_TTL_SECONDS}

Null == [t |-> "null"]
Undefined == [t |-> "undefined"]
Throw == [t |-> "throw"]

(***************************************************************************)
(* Strings, bytes and text encodings.                                      *)
(***************************************************************************)
StringFields == {"uid", "addr"}
NumberFields == {"iat", "exp"}
FieldOrder == <<"uid", "addr", "iat", "exp">>

\* TextEncoder().encode(s) / Buffer.from(s, 'utf8'): the UTF-8 bytes of a text
te(text) == [t |-> "utf8", text |-> text]

Str(s) == [t |-> "str", s |-> s]

RECURSIVE Digits(_)
Digits(n) == IF n < 10 THEN 1 ELSE 1 + Digits(n \div 10)

\* JSON.stringify of a payload object: its present members in insertion order
\* (a member whose value is undefined is left out)
RECURSIVE JSONMembers(_, _)
JSONMembers(p, i) ==
    IF i > Len(FieldOrder) THEN <<>>
    ELSE IF FieldOrder[i] \in DOMAIN p
         THEN <<(<<FieldOrder[i], p[FieldOrder[i]]>>)>> \o JSONMembers(p, i + 1)
         ELSE JSONMembers(p, i + 1)

JSONStringify(p) == [t |-> "json", members |-> JSONMembers(p, 1)]

\* JSON.parse: the object of a JSON object text; every other text that
\* reaches it here is not JSON and makes it throw
JSONParse(text) ==
    IF text.t = "json"
    THEN [k \in {text.members[i][1] : i \in DOMAIN text.members} |->
            LET i == CHOOSE j \in DOMAIN text.members : text.members[j][1] = k
            IN  text.members[i][2]]
    ELSE Throw

RECURSIVE MembersLen(_, _)
MembersLen(ms, i) ==
    IF i > Len(ms) THEN 0
    ELSE Len(ms[i][1]) + 3
         + (IF ms[i][1] \in StringFields THEN Len(ms[i][2]) + 2 ELSE Digits(ms[i][2]))
         + (IF i < Len(ms) THEN 1 ELSE 0)
         + MembersLen(ms, i + 1)

TextLen(text) ==
    CASE text.t = "json" -> 2 + MembersLen(text.members, 1)
      [] text.t = "str" -> Len(text.s)
      [] OTHER -> text.len

ByteLen(bytes) ==
    CASE bytes.t = "utf8" -> TextLen(bytes.text)
      [] bytes.t = "mac" -> HmacSha256Bytes
      [] OTHER -> bytes.len

\* Buffer.toString('base64url') / btoa + replaceAll: unpadded base64url text
base64urlEncode(bytes) == [t |-> "b64", bytes |-> bytes]

\* the number of characters of a dot-free segment of a token
SegLen(seg) ==
    CASE seg.t = "b64" -> (4 * ByteLen(seg.bytes) + 2) \div 3
      [] seg.t = "empty" -> 0
      [] OTHER -> seg.len

Garbage == [t |-> "garbage", len |-> 5]

\* Buffer.from(input, 'base64url').toString('utf8'): lenient, never throws;
\* bytes that are not the UTF-8 of a text decode to replacement characters
base64urlDecodeToString(seg) ==
    IF seg.t = "b64" /\ seg.bytes.t = "utf8" THEN seg.bytes.text ELSE Garbage

\* atob after re-padding: throws on a character outside the alphabet
base64urlDecodeToUint8(seg) ==
    CASE seg.t = "b64" -> seg.bytes
      [] seg.t = "empty" -> te(Str(""))
      [] OTHER -> Throw

\* new TextDecoder().decode(bytes)
TextDecode(bytes) == IF bytes.t = "utf8" THEN bytes.text ELSE Garbage

\* createHmac('sha256', key).update(msg).digest() / crypto.subtle.sign('HMAC', key, msg)
Hmac(key, msg) == [t |-> "mac", key |-> key, msg |-> msg]

(***************************************************************************)
(* The signing key (internal-secret.ts, siwe-cookie-edge.ts).              *)
(***************************************************************************)
KeyLabel == Str("sim-internal-api-secret-v1")

\* process.env.BETTER_AUTH_SECRET || process.env.ENCRYPTION_KEY || ''
BaseSecret(e) == IF e.better # "" THEN e.better ELSE IF e.enc # "" THEN e.enc ELSE ""

ExplicitUsable(e) == e.explicit # "" /\ Len(e.explicit) >= MinExplicitSecretLength

\* getInternalApiSecretKey past its cache: the key derived from process.env
DeriveKeyNode(e) ==
    IF ExplicitUsable(e)
    THEN te(Str(e.explicit))
    ELSE Hmac(te(Str(BaseSecret(e))), te(KeyLabel))

\* getInternalApiSecretKey: the cached key once one was derived
getInternalApiSecretKey(e, cached) == IF cached # Null THEN cached ELSE DeriveKeyNode(e)

\* crypto.subtle.importKey('raw', keyBytes, HMAC): a zero-length key is a DataError
importHmacKey(keyBytes) == IF ByteLen(keyBytes) = 0 THEN Throw ELSE keyBytes

\* deriveInternalKeyBytes: derived from process.env on every call
deriveInternalKeyBytes(e) ==
    IF ExplicitUsable(e)
    THEN te(Str(e.explicit))
    ELSE IF importHmacKey(te(Str(BaseSecret(e)))) = Throw
         THEN Throw
         ELSE Hmac(te(Str(BaseSecret(e))), te(KeyLabel))

\* configurations of process.env
DefaultEnv == [explicit |-> "", better |-> "better-auth-secret", enc |-> ""]

LongSecret == "0123456789abcdef0123456789abcdef"
ShortSecret == "0123456789abcdef0123456789abcde"

Envs ==
    { [explicit |-> LongSecret, better |-> "better-auth-secret", enc |-> ""],
      [explicit |-> ShortSecret, better |-> "better-auth-secret", enc |-> ""],
      DefaultEnv,
      [explicit |-> "", better |-> "", enc |-> "encryption-key"],
      [explicit |-> "", better |-> "", enc |-> ""] }

\* a secret is configured: a usable explicit secret or a base secret
HasSecret(e) == ExplicitUsable(e) \/ BaseSecret(e) # ""

(***************************************************************************)
(* The cookie codec, server runtime (siwe-cookie.ts).                      *)
(***************************************************************************)
Value(parts) == [t |-> "string", parts |-> parts]
EmptySeg == [t |-> "empty"]

\* !value: null, undefined and the empty string are falsy
FalsyValue(v) == v = Null \/ v = Undefined \/ v = Value(<<EmptySeg>>)

\* !payload?.f: a missing member, '' and 0 are falsy
Falsy(p, f) ==
    \/ p = Null
    \/ f \notin DOMAIN p
    \/ (IF f \in StringFields THEN p[f] = "" ELSE p[f] = 0)

sign(input, key) == base64urlEncode(Hmac(key, te(input)))

encodeSignedSiweCookie(payload, key) ==
    LET payloadJson == JSONStringify(payload)
        payloadB64 == base64urlEncode(te(payloadJson))
        sig == sign(payloadB64, key)
    IN  Value(<<payloadB64, sig>>)

\* mutant: only the lengths of the two signatures are compared
SignatureMismatchLengthOnly(sig, expectedSig) ==
    SegLen(sig) # SegLen(expectedSig)

\* a.length !== b.length || !timingSafeEqual(a, b)
SignatureMismatch(sig, expectedSig) ==
    SegLen(sig) # SegLen(expectedSig) \/ sig # expectedSig

PayloadAccepted(payload, nowSec) ==
    IF payload = Throw THEN Null
    ELSE IF Falsy(payload, "uid") \/ Falsy(payload, "addr")
            \/ Falsy(payload, "iat") \/ Falsy(payload, "exp") THEN Null
    ELSE IF nowSec >= payload.exp THEN Null
    ELSE payload

decodeAndVerifySiweCookie(value, key, nowSec) ==
    IF FalsyValue(value) THEN Null
    ELSE IF Len(value.parts) # 2 THEN Null
    ELSE LET payloadB64 == value.parts[1]
             sig == value.parts[2]
             expectedSig == sign(payloadB64, key)
         IN  IF SignatureMismatch(sig, expectedSig) THEN Null
             ELSE PayloadAccepted(JSONParse(base64urlDecodeToString(payloadB64)), nowSec)

(***************************************************************************)
(* The cookie codec, Web Crypto runtime (siwe-cookie-edge.ts).             *)
(***************************************************************************)
signPayloadB64(payloadB64, key) == base64urlEncode(Hmac(key, te(payloadB64)))

encodeSignedSiweCookieEdge(payload, e) ==
    LET payloadJson == JSONStringify(payload)
        payloadB64 == base64urlEncode(te(payloadJson))
        keyBytes == deriveInternalKeyBytes(e)
    IN  IF keyBytes = Throw \/ importHmacKey(keyBytes) = Throw THEN Throw
        ELSE Value(<<payloadB64, signPayloadB64(payloadB64, importHmacKey(keyBytes))>>)

\* sig.length !== expectedSig.length, then the XOR of the character codes
SignatureMismatchEdge(sig, expectedSig) ==
    SegLen(sig) # SegLen(expectedSig) \/ sig # expectedSig

\* mutant: a token is still accepted in the second it expires
PayloadAcceptedAtExpiry(payload, nowSec) ==
    IF payload = Throw THEN Null
    ELSE IF Falsy(payload, "uid") \/ Falsy(payload, "addr")
            \/ Falsy(payload, "iat") \/ Falsy(payload, "exp") THEN Null
    ELSE IF nowSec > payload.exp THEN Null
    ELSE payload

PayloadAcceptedEdge(payload, nowSec) ==
    IF payload = Throw THEN Null
    ELSE IF Falsy(payload, "uid") \/ Falsy(payload, "addr")
            \/ Falsy(payload, "iat") \/ Falsy(payload, "exp") THEN Null
    ELSE IF nowSec >= payload.exp THEN Null
    ELSE payload

decodeAndVerifySiweCookieEdge(value, e, nowSec) ==
    IF FalsyValue(value) THEN Null
    ELSE IF Len(value.parts) # 2 THEN Null
    ELSE LET payloadB64 == value.parts[1]
             sig == value.parts[2]
             keyBytes == deriveInternalKeyBytes(e)
         IN  IF keyBytes = Throw \/ importHmacKey(keyBytes) = Throw THEN Null
             ELSE IF SignatureMismatchEdge(sig, signPayloadB64(payloadB64, importHmacKey(keyBytes)))
                  THEN Null
             ELSE IF base64urlDecodeToUint8(payloadB64) = Throw THEN Null
             ELSE PayloadAcceptedEdge(
                      JSONParse(TextDecode(base64urlDecodeToUint8(payloadB64))), nowSec)

\* states of the parts a specification does not exercise
NoSessionCall ==
    [op |-> "", fed |-> Null, header |-> Null, result |-> Null, consulted |-> FALSE,
     threw |-> FALSE, key |-> Null, at |-> 0]
TokenIds == {0, 1, 7}
EmptyChain == [owner |-> [t \in TokenIds |-> ""], enumerable |-> TRUE]
NoNftEnv == [contract |-> "", premium |-> Undefined, enterprise |-> Undefined]
IdleRun == [pc |-> "idle", wallet |-> "", reads |-> <<>>, failed |-> {},
            attempts |-> 0, tries |-> <<>>,
            ownedTokenCount |-> Undefined, tokenIdentifier |-> Undefined, result |-> Null]

NoTierCall == [op |-> "", arg |-> Null, result |-> Null]
NoOptions == [requireTier |-> Undefined, checkResource |-> "", incrementUsage |-> ""]
IdleGuard == [pc |-> "idle", options |-> NoOptions, session |-> Null, userId |-> "",
              context |-> Null,
              calls |-> <<>>, result |-> Null]

(***************************************************************************)
(* The SIWE handshake: GET nonce and POST verify (route.ts).               *)
(***************************************************************************)
Addresses == {"0xAb", "0xCd"}

\* the addresses of validly signed messages, one wallet in two spellings
Spellings == {"0xAb", "0xab", "0xCd"}
Hosts == {"app.sim", "alt.sim"}

\* the host of the configured base URL, which the handler never reads
BaseUrlHost == "app.sim"

\* mutant: the address is kept as the message spells it
toChecksumLowerKeepsCase(addr) == addr

\* toChecksumLower: addr?.toLowerCase()
toChecksumLower(addr) ==
    CASE addr = "0xAb" -> "0xab"
      [] addr = "0xCd" -> "0xcd"
      [] OTHER -> addr

\* `user_${now.getTime()}_${random}`: an id no other row has
NewUserId(rows) == "user_" \o ToString(Cardinality(rows) + 1)

NoResponse == [status |-> 0, error |-> "", cookie |-> Null]

IdleReq ==
    [pc |-> "idle", nonce |-> "", address |-> "", recovered |-> "", domain |-> "",
     host |-> "", begun |-> {}, finished |-> {}, uid |-> "", response |-> NoResponse]

JsonError(status, error) == [status |-> status, error |-> error, cookie |-> Null]

\* mutant: the payload expires the second it is issued
setSiweSessionCookieNoValidity(userId, address, key, nowSec) ==
    [name |-> "siwe_session",
     value |-> encodeSignedSiweCookie(
                   [uid |-> userId, addr |-> address, iat |-> nowSec,
                    exp |-> nowSec], key),
     httpOnly |-> TRUE, secure |-> TRUE, sameSite |-> "lax", path |-> "/",
     maxAge |-> CookieValiditySeconds]

\* setSiweSessionCookie: the cookie set on the { ok: true } response
setSiweSessionCookie(userId, address, key, nowSec) ==
    [name |-> "siwe_session",
     value |-> encodeSignedSiweCookie(
                   [uid |-> userId, addr |-> address, iat |-> nowSec,
                    exp |-> nowSec + CookieValiditySeconds], key),
     httpOnly |-> TRUE, secure |-> TRUE, sameSite |-> "lax", path |-> "/",
     maxAge |-> CookieValiditySeconds]

OkResponse(userId, address, key, nowSec) ==
    [status |-> 200, error |-> "",
     cookie |-> setSiweSessionCookie(userId, address, key, nowSec)]

\* env.REDIS_URL is set and getRedisClient() returns a client
RedisInUse == redisUrl /\ redisClient

\* redis.get(nonceKey): the key exists and has not expired
RedisGet(n) == n \in DOMAIN store /\ store[n] > now

\* siwe.verify({ signature, domain }): the signature recovers the claimed
\* address and the message's domain is the domain handed in
SiweVerify(address, recovered, domain, expectedDomain) ==
    recovered = address /\ domain = expectedDomain

\* mutant: the host of the configured base URL instead of the request's
RequestDomainFromBaseUrl(host) == BaseUrlHost

\* new URL(req.url).host
RequestDomain(host) == host

\* mutant: the nonce is stored with twice the TTL
IssueNonceLongLived(n) ==
    /\ n \notin issued
    /\ issued' = issued \cup {n}
    /\ store' = IF RedisInUse
                THEN [store EXCEPT ![n] = now + NONCE_TTL_SECONDS + NONCE_TTL_SECONDS]
                ELSE store
    /\ UNCHANGED <<now, env, cachedKey, redisUrl, redisClient, users, req, outsideHandshake>>

\* GET nonce: generateNonce(), stored with its TTL when the store is in use
IssueNonce(n) ==
    /\ n \notin issued
    /\ issued' = issued \cup {n}
    /\ store' = IF RedisInUse THEN [store EXCEPT ![n] = now + NONCE_TTL_SECONDS] ELSE store
    /\ UNCHANGED <<now, env, cachedKey, redisUrl, redisClient, users, req, outsideHandshake>>

\* POST verify without message or signature
VerifyMissing(r) ==
    /\ req[r].pc = "idle"
    /\ req' = [req EXCEPT ![r].pc = "done",
                          ![r].response = JsonError(400, "Missing message or signature")]
    /\ UNCHANGED <<now, env, cachedKey, redisUrl, redisClient, store, issued, users, outsideHandshake>>

\* POST verify with a message new SiweMessage() cannot parse: the catch block
VerifyMalformed(r) ==
    /\ req[r].pc = "idle"
    /\ req' = [req EXCEPT ![r].pc = "done",
                          ![r].response = JsonError(500, "Verification failed")]
    /\ UNCHANGED <<now, env, cachedKey, redisUrl, redisClient, store, issued, users, outsideHandshake>>

\* mutant: the nonce is consumed before the signature is checked
VerifyStartConsumesFirst(r, n, address, recovered, domain, host, rejects) ==
    /\ req[r].pc = "idle"
    /\ store' = IF n \in DOMAIN store THEN [store EXCEPT ![n] = 0] ELSE store
    /\ LET started == [req[r] EXCEPT !.nonce = n, !.address = address,
                                     !.recovered = recovered, !.domain = domain,
                                     !.host = host]
       IN  req' = [req EXCEPT ![r] =
                IF ~SiweVerify(address, recovered, domain, RequestDomain(host))
                THEN [started EXCEPT !.pc = "done",
                                     !.response = IF rejects
                                                  THEN JsonError(500, "Verification failed")
                                                  ELSE JsonError(401, "Invalid SIWE")]
                ELSE [started EXCEPT !.pc = "select",
                                     !.begun = {q \in ReqIds : req[q].pc # "idle"},
                                     !.finished = {q \in ReqIds : req[q].pc = "done"}]]
    /\ UNCHANGED <<now, env, cachedKey, redisUrl, redisClient, issued, users, outsideHandshake>>

\* mutant: the nonce is looked up whether or not a store is configured
VerifyStartAlwaysChecks(r, n, address, recovered, domain, host, rejects) ==
    /\ req[r].pc = "idle"
    /\ LET started == [req[r] EXCEPT !.nonce = n, !.address = address,
                                     !.recovered = recovered, !.domain = domain,
                                     !.host = host]
       IN  req' = [req EXCEPT ![r] =
                IF ~SiweVerify(address, recovered, domain, RequestDomain(host))
                THEN [started EXCEPT !.pc = "done",
                                     !.response = IF rejects
                                                  THEN JsonError(500, "Verification failed")
                                                  ELSE JsonError(401, "Invalid SIWE")]
                ELSE [started EXCEPT !.pc = "get",
                                     !.begun = {q \in ReqIds : req[q].pc # "idle"},
                                     !.finished = {q \in ReqIds : req[q].pc = "done"}]]
    /\ UNCHANGED <<now, env, cachedKey, redisUrl, redisClient, store, issued, users, outsideHandshake>>

\* POST verify up to the first store access: parse, siwe.verify; a failed
\* verification either resolves with success = false (401) or rejects (500),
\* as the siwe release in use decides
VerifyStart(r, n, address, recovered, domain, host, rejects) ==
    /\ req[r].pc = "idle"
    /\ LET started == [req[r] EXCEPT !.nonce = n, !.address = address,
                                     !.recovered = recovered, !.domain = domain,
                                     !.host = host]
       IN  req' = [req EXCEPT ![r] =
                IF ~SiweVerify(address, recovered, domain, RequestDomain(host))
                THEN [started EXCEPT !.pc = "done",
                                     !.response = IF rejects
                                                  THEN JsonError(500, "Verification failed")
                                                  ELSE JsonError(401, "Invalid SIWE")]
                ELSE [started EXCEPT !.pc = IF RedisInUse THEN "get" ELSE "select",
                                     !.begun = {q \in ReqIds : req[q].pc # "idle"},
                                     !.finished = {q \in ReqIds : req[q].pc = "done"}]]
    /\ UNCHANGED <<now, env, cachedKey, redisUrl, redisClient, store, issued, users, outsideHandshake>>

\* const existed = await redis.get(nonceKey); if (!existed) return 401
NonceGet(r) ==
    /\ req[r].pc = "get"
    /\ req' = [req EXCEPT ![r] =
                IF RedisGet(req[r].nonce)
                THEN [req[r] EXCEPT !.pc = "del"]
                ELSE [req[r] EXCEPT !.pc = "done",
                                    !.response = JsonError(401, "Nonce expired/used")]]
    /\ UNCHANGED <<now, env, cachedKey, redisUrl, redisClient, store, issued, users, outsideHandshake>>

\* mutant: the nonce is read and never deleted
NonceDelKeepsKey(r) ==
    /\ req[r].pc = "del"
    /\ req' = [req EXCEPT ![r].pc = "select"]
    /\ UNCHANGED <<now, env, cachedKey, redisUrl, redisClient, store, issued, users, outsideHandshake>>

\* await redis.del(nonceKey)
NonceDel(r) ==
    /\ req[r].pc = "del"
    /\ store' = [store EXCEPT ![req[r].nonce] = 0]
    /\ req' = [req EXCEPT ![r].pc = "select"]
    /\ UNCHANGED <<now, env, cachedKey, redisUrl, redisClient, issued, users, outsideHandshake>>

\* select ... where walletAddress = address limit 1; an existing user is
\* answered at once with the session cookie
UserSelect(r, row) ==
    /\ req[r].pc = "select"
    /\ LET address == toChecksumLower(req[r].address)
           existing == {u \in users : u.walletAddress = address}
       IN  IF existing = {}
           THEN /\ row = Null
                /\ req' = [req EXCEPT ![r].pc = "insert"]
                /\ UNCHANGED cachedKey
           ELSE /\ row \in existing
                /\ req' = [req EXCEPT ![r].pc = "done", ![r].uid = row.id,
                              ![r].response =
                                  OkResponse(row.id, address,
                                             getInternalApiSecretKey(env, cachedKey), now)]
                /\ cachedKey' = getInternalApiSecretKey(env, cachedKey)
    /\ UNCHANGED <<now, env, redisUrl, redisClient, store, issued, users, outsideHandshake>>

\* `Wallet ${address.slice(0, 6)}...${address.slice(-4)}`: the addresses of
\* the model are four characters long, so both slices are the whole address
WalletName(address) == "Wallet " \o address \o "..." \o address

\* the user store is keyed by wallet address (upsert-by-wallet): it refuses a
\* second row for an address that already has one
WalletAddressTaken(rows, address) == \E u \in rows : u.walletAddress = address

\* insert into user ... returning; then the session cookie. An insert the
\* store refuses throws, and the catch block answers 500
UserInsert(r) ==
    /\ req[r].pc = "insert"
    /\ LET address == toChecksumLower(req[r].address)
           id == NewUserId(users)
       IN  IF WalletAddressTaken(users, address)
           THEN /\ req' = [req EXCEPT ![r].pc = "done",
                              ![r].response = JsonError(500, "Verification failed")]
                /\ UNCHANGED <<users, cachedKey>>
           ELSE /\ users' = users \cup {[id |-> id, name |-> WalletName(address),
                                         email |-> address \o "@wallet.user",
                                         emailVerified |-> TRUE, image |-> Null,
                                         walletAddress |-> address]}
                /\ req' = [req EXCEPT ![r].pc = "done", ![r].uid = id,
                              ![r].response =
                                  OkResponse(id, address,
                                             getInternalApiSecretKey(env, cachedKey), now)]
                /\ cachedKey' = getInternalApiSecretKey(env, cachedKey)
    /\ UNCHANGED <<now, env, redisUrl, redisClient, store, issued, outsideHandshake>>

\* time passes
Tick(d) ==
    /\ now + d <= MaxTime
    /\ now' = now + d
    /\ UNCHANGED <<env, cachedKey, handshakeVars, outsideHandshake>>

NoCall == [op |-> "", arg |-> Null, result |-> Null, at |-> 0, key |-> Null]

\* the route handlers, the polling tool and the knowledge store before any call
IdleDisconnect == [accounts |-> {}, call |-> Null]
IdleSocketToken == [call |-> Null]
IdleWebhook == [secret |-> "", call |-> Null]
IdlePoll ==
    [pc |-> "idle", maxWait |-> 0, pollInterval |-> 0, elapsed |-> 0, last |-> "",
     result |-> Null, out |-> Null]
IdleCache == [cache |-> Null, loading |-> FALSE, cursor |-> Null, call |-> Null]
IdleKnowledge == [documents |-> IdleCache, chunks |-> IdleCache]
IdleList ==
    [loaded |-> FALSE, loading |-> FALSE, error |-> Null, retryCount |-> 0, deps |-> Null,
     pc |-> "none", attempt |-> 0, isMounted |-> FALSE, delay |-> 0, fetches |-> 0,
     failed |-> 0, succeeded |-> FALSE, last |-> ""]

RoutesIdle ==
    /\ dc = IdleDisconnect
    /\ st = IdleSocketToken
    /\ wh = IdleWebhook
    /\ poll = IdlePoll
    /\ kb = IdleKnowledge
    /\ kl = IdleList

Init ==
    /\ now = 0
    /\ env = DefaultEnv
    /\ cachedKey = Null
    /\ redisUrl \in BOOLEAN
    /\ redisClient \in (IF redisUrl THEN BOOLEAN ELSE {FALSE})
    /\ store = [n \in Nonces |-> 0]
    /\ issued = {}
    /\ users = {}
    /\ req = [r \in ReqIds |-> IdleReq]
    /\ last = NoCall
    /\ sess = NoSessionCall
    /\ chain = EmptyChain
    /\ nftEnv = NoNftEnv
    /\ rv = IdleRun
    /\ access = Null
    /\ gd = IdleGuard
    /\ tc = NoTierCall
    /\ RoutesIdle

Next ==
    \/ \E n \in Nonces : IssueNonce(n)
    \/ \E r \in ReqIds : VerifyMissing(r)
    \/ \E r \in ReqIds : VerifyMalformed(r)
    \/ \E r \in ReqIds, n \in issued \cup {UnknownNonce}, address \in Addresses, recovered \in Addresses,
          domain \in Hosts, host \in Hosts, rejects \in BOOLEAN :
          VerifyStart(r, n, address, recovered, domain, host, rejects)
    \/ \E r \in ReqIds : NonceGet(r)
    \/ \E r \in ReqIds : NonceDel(r)
    \/ \E r \in ReqIds, row \in users \cup {Null} : UserSelect(r, row)
    \/ \E r \in ReqIds : UserInsert(r)
    \/ \E d \in TickSteps : Tick(d)

Spec == Init /\ [][Next]_vars

\* the waits of a caller who comes back when the nonce has expired
LateTickSteps == {NONCE_TTL_SECONDS, NONCE_TTL_SECONDS + 1}

\* the handshake fed with validly signed, domain-matching messages only
NextUpsert ==
    \/ \E n \in Nonces : IssueNonce(n)
    \/ \E r \in ReqIds, n \in issued \cup {UnknownNonce}, address \in Spellings :
          VerifyStart(r, n, address, address, BaseUrlHost, BaseUrlHost, FALSE)
    \/ \E r \in ReqIds : NonceGet(r)
    \/ \E r \in ReqIds : NonceDel(r)
    \/ \E r \in ReqIds, row \in users \cup {Null} : UserSelect(r, row)
    \/ \E r \in ReqIds : UserInsert(r)
    \/ \E d \in LateTickSteps : Tick(d)

SpecUpsert == Init /\ [][NextUpsert]_vars

(***************************************************************************)
(* The cookie codec as a state machine: calls of the two encoders and the  *)
(* two decoders, changes of process.env between calls, and time.           *)
(***************************************************************************)
GoodPayload == [uid |-> "user_1", addr |-> "0xab", iat |-> 1, exp |-> 2]
LaterPayload == [uid |-> "user_1", addr |-> "0xab", iat |-> 1, exp |-> 3]

\* payloads with all four members present
FullPayloads ==
    { GoodPayload, LaterPayload,
      [GoodPayload EXCEPT !.iat = 0],
      [GoodPayload EXCEPT !.uid = ""],
      [GoodPayload EXCEPT !.addr = ""],
      [GoodPayload EXCEPT !.exp = 0] }

\* payloads the codec may meet: every member present, or one left out
Payloads ==
    FullPayloads \cup
    { [addr |-> "0xab", iat |-> 1, exp |-> 2],
      [uid |-> "user_1", iat |-> 1, exp |-> 2],
      [uid |-> "user_1", addr |-> "0xab", exp |-> 2],
      [uid |-> "user_1", addr |-> "0xab", iat |-> 1] }

\* a key no configuration yields: the forger's own
ForgerKey == te(Str("forger"))

ConfiguredKeys == {DeriveKeyNode(e) : e \in Envs}

JunkSig == [t |-> "junk", len |-> (4 * HmacSha256Bytes + 2) \div 3]

\* a signed token changed after signing, or cut or extended
Tampered(k) ==
    LET v == encodeSignedSiweCookie(GoodPayload, k)
        w == encodeSignedSiweCookie(LaterPayload, k)
    IN  { Value(<<w.parts[1], v.parts[2]>>),
          Value(<<v.parts[1], JunkSig>>),
          Value(<<v.parts[1], EmptySeg>>),
          Value(<<v.parts[1]>>),
          Value(<<v.parts[1], v.parts[2], v.parts[2]>>),
          Value(<<JunkSig, sign(JunkSig, k)>>),
          Value(<<v.parts[2], sign(v.parts[2], k)>>) }

\* cookie values presented to the decoders
CookieValues ==
    {Null, Undefined, Value(<<EmptySeg>>)}
    \cup {encodeSignedSiweCookie(p, DeriveKeyNode(DefaultEnv)) : p \in Payloads}
    \cup {encodeSignedSiweCookie(p, k) : p \in {GoodPayload, [GoodPayload EXCEPT !.iat = 0]},
                                         k \in ConfiguredKeys \cup {ForgerKey}}
    \cup Tampered(DeriveKeyNode(DefaultEnv))

\* process.env changes between two calls
SetEnv(e) ==
    /\ e # env
    /\ env' = e
    /\ UNCHANGED <<now, cachedKey, outsideCodec, codecVars>>

EncodeNode(p) ==
    LET key == getInternalApiSecretKey(env, cachedKey)
    IN  /\ cachedKey' = key
        /\ last' = [op |-> "encodeNode", arg |-> p,
                    result |-> encodeSignedSiweCookie(p, key), at |-> now, key |-> key]
        /\ UNCHANGED <<now, env, outsideCodec>>

EncodeEdge(p) ==
    /\ last' = [op |-> "encodeEdge", arg |-> p,
                result |-> encodeSignedSiweCookieEdge(p, env), at |-> now,
                key |-> deriveInternalKeyBytes(env)]
    /\ UNCHANGED <<now, env, cachedKey, outsideCodec>>

\* the key is fetched (and cached) only once the value has two segments
DecodeNode(v) ==
    LET key == getInternalApiSecretKey(env, cachedKey)
    IN  /\ cachedKey' = IF FalsyValue(v) \/ Len(v.parts) # 2 THEN cachedKey ELSE key
        /\ last' = [op |-> "decodeNode", arg |-> v,
                    result |-> decodeAndVerifySiweCookie(v, key, now), at |-> now,
                    key |-> key]
        /\ UNCHANGED <<now, env, outsideCodec>>

DecodeEdge(v) ==
    /\ last' = [op |-> "decodeEdge", arg |-> v,
                result |-> decodeAndVerifySiweCookieEdge(v, env, now), at |-> now,
                key |-> deriveInternalKeyBytes(env)]
    /\ UNCHANGED <<now, env, cachedKey, outsideCodec>>

CodecTick ==
    /\ now < MaxClock
    /\ now' = now + 1
    /\ UNCHANGED <<env, cachedKey, outsideCodec, codecVars>>

InitCodec ==
    /\ now = 1
    /\ env \in {e \in Envs : HasSecret(e)}
    /\ cachedKey = Null
    /\ redisUrl = FALSE
    /\ redisClient = FALSE
    /\ store = [n \in Nonces |-> 0]
    /\ issued = {}
    /\ users = {}
    /\ req = [r \in ReqIds |-> IdleReq]
    /\ last = NoCall
    /\ sess = NoSessionCall
    /\ chain = EmptyChain
    /\ nftEnv = NoNftEnv
    /\ rv = IdleRun
    /\ access = Null
    /\ gd = IdleGuard
    /\ tc = NoTierCall
    /\ RoutesIdle

NextCodec ==
    \/ \E e \in Envs : SetEnv(e)
    \/ \E p \in Payloads : EncodeNode(p)
    \/ \E p \in Payloads : EncodeEdge(p)
    \/ \E v \in CookieValues : DecodeNode(v)
    \/ \E v \in CookieValues : DecodeEdge(v)
    \/ CodecTick

SpecCodec == InitCodec /\ [][NextCodec]_vars

(***************************************************************************)
(* getSession: the federated provider first, the wallet cookie as the      *)
(* fallback (auth.ts, as documented in the integration notes).             *)
(***************************************************************************)
\* what auth.api.getSession resolves to: nothing, a session of identity A,
\* or a session object without a user id
FederatedSession ==
    [user |-> [id |-> "user_A", email |-> "john@example.com", name |-> "John Doe"]]
AnonymousSession == [user |-> [id |-> "", email |-> "", name |-> ""]]
FederatedResults == {Null, FederatedSession, AnonymousSession}

\* betterAuthSession?.user?.id
HasUserId(fed) == fed # Null /\ fed.user.id # ""

\* one entry of the cookie header, name=value
Cookie(name, value) == [name |-> name, value |-> value]
OtherCookie == Cookie("theme", Value(<<[t |-> "text", of |-> "dark"]>>))

\* cookies.find(c => c.startsWith('siwe_session=')): the first such entry
RECURSIVE FindSiweCookie(_)
FindSiweCookie(cookies) ==
    IF cookies = <<>> THEN Undefined
    ELSE IF Head(cookies).name = "siwe_session" THEN Head(cookies)
    ELSE FindSiweCookie(Tail(cookies))

\* addr.slice(from, to) of the payload's address
Slice(addr, from, to) == [t |-> "slice", of |-> addr, from |-> from, to |-> to]

\* the session object built from a wallet payload
WalletSession(p) ==
    [user |-> [id |-> p.uid,
               email |-> p.addr \o "@wallet.user",
               name |-> <<"Wallet ", Slice(p.addr, 0, 6), "...", Slice(p.addr, -4, 0)>>,
               image |-> Null,
               emailVerified |-> TRUE],
     session |-> [id |-> "siwe_" \o p.uid,
                  userId |-> p.uid,
                  expiresAt |-> p.exp * 1000,
                  token |-> "siwe_session",
                  createdAt |-> p.iat * 1000,
                  updatedAt |-> p.iat * 1000]]

\* step 2 of getSession: the session of the wallet cookie, if any; consulted
\* tells whether decodeAndVerifySiweCookie was called
SiweFallback(header, key, nowSec) ==
    IF header = Null \/ header.cookies = <<>> THEN [result |-> Null, consulted |-> FALSE]
    ELSE LET siweCookie == FindSiweCookie(header.cookies)
         IN  IF siweCookie = Undefined THEN [result |-> Null, consulted |-> FALSE]
             ELSE LET siwePayload == decodeAndVerifySiweCookie(siweCookie.value, key, nowSec)
                  IN  IF Falsy(siwePayload, "uid")
                      THEN [result |-> Null, consulted |-> TRUE]
                      ELSE [result |-> WalletSession(siwePayload), consulted |-> TRUE]

\* mutant: the wallet cookie is looked at first
getSessionWalletFirst(fed, header, key, nowSec) ==
    LET siwe == SiweFallback(header, key, nowSec)
    IN  IF siwe.result # Null THEN siwe
        ELSE IF HasUserId(fed) THEN [result |-> fed, consulted |-> siwe.consulted]
        ELSE siwe

getSession(fed, header, key, nowSec) ==
    IF HasUserId(fed) THEN [result |-> fed, consulted |-> FALSE]
    ELSE SiweFallback(header, key, nowSec)

\* headersList.get('cookie'): null, or the header split at ';'
CookieHeader(cookies) == [t |-> "header", cookies |-> cookies]

\* values of the siwe_session cookie: minted here, expired, minted under
\* other keys, changed after minting, cut short, empty
SessionCookieValues ==
    {encodeSignedSiweCookie(p, DeriveKeyNode(DefaultEnv)) :
         p \in {GoodPayload, LaterPayload, [GoodPayload EXCEPT !.exp = 0]}}
    \cup {encodeSignedSiweCookie(GoodPayload, k) : k \in ConfiguredKeys \cup {ForgerKey}}
    \cup {Value(<<EmptySeg>>),
          Value(<<encodeSignedSiweCookie(GoodPayload, DeriveKeyNode(DefaultEnv)).parts[1]>>),
          Value(<<encodeSignedSiweCookie(GoodPayload, DeriveKeyNode(DefaultEnv)).parts[1],
                  JunkSig>>)}

\* cookie headers of a request: none, or entries with at most one wallet cookie
Headers ==
    {Null, CookieHeader(<<>>), CookieHeader(<<OtherCookie>>)}
    \cup {CookieHeader(<<Cookie("siwe_session", v)>>) : v \in SessionCookieValues}
    \cup {CookieHeader(<<OtherCookie, Cookie("siwe_session", v)>>) :
              v \in {encodeSignedSiweCookie(GoodPayload, DeriveKeyNode(DefaultEnv))}}

\* mutant: what the decoder throws leaves getSession
GetSessionUncaught(fed, header, throws) ==
    LET key == getInternalApiSecretKey(env, cachedKey)
        out == getSession(fed, header, key, now)
        threw == throws /\ out.consulted
    IN  /\ sess' = [op |-> "getSession", fed |-> fed, header |-> header,
                    result |-> IF threw THEN [error |-> "decoder"] ELSE out.result,
                    consulted |-> out.consulted, threw |-> threw, key |-> key, at |-> now]
        /\ cachedKey' = cachedKey
        /\ UNCHANGED <<now, env, handshakeVars, codecVars, guardVars, tierVars, routeVars, knowledgeVars, resolveVars>>

\* getSession with its try/catch: what the decoder (or its import) throws is
\* logged and null is returned; the key is fetched (and cached) when the
\* decoder gets a two-segment value and returns
GetSession(fed, header, throws) ==
    LET key == getInternalApiSecretKey(env, cachedKey)
        out == getSession(fed, header, key, now)
        threw == throws /\ out.consulted
        siweCookie == IF header = Null THEN Undefined ELSE FindSiweCookie(header.cookies)
    IN  /\ sess' = [op |-> "getSession", fed |-> fed, header |-> header,
                    result |-> IF threw THEN Null ELSE out.result,
                    consulted |-> out.consulted, threw |-> threw, key |-> key, at |-> now]
        /\ cachedKey' = IF out.consulted /\ ~threw /\ Len(siweCookie.value.parts) = 2
                        THEN key ELSE cachedKey
        /\ UNCHANGED <<now, env, handshakeVars, codecVars, guardVars, tierVars, routeVars, knowledgeVars, resolveVars>>

SessionSetEnv(e) ==
    /\ e # env
    /\ env' = e
    /\ UNCHANGED <<now, cachedKey, handshakeVars, codecVars, guardVars, tierVars, routeVars, knowledgeVars, sessionVars, resolveVars>>

SessionTick ==
    /\ now < MaxClock
    /\ now' = now + 1
    /\ UNCHANGED <<env, cachedKey, handshakeVars, codecVars, guardVars, tierVars, routeVars, knowledgeVars, sessionVars, resolveVars>>

NextSession ==
    \/ \E fed \in FederatedResults, header \in Headers, throws \in BOOLEAN :
          GetSession(fed, header, throws)
    \/ \E e \in Envs : SessionSetEnv(e)
    \/ SessionTick

SpecSession == InitCodec /\ [][NextSession]_vars

(***************************************************************************)
(* The session probe GET /api/auth/me (route.ts).                          *)
(***************************************************************************)
MeResponse(userId, email, walletAddress) ==
    [status |-> 200, userId |-> userId, email |-> email, walletAddress |-> walletAddress]

NobodyResponse == MeResponse(Null, Null, Null)

\* x || null of a text
OrNull(text) == IF text = "" THEN Null ELSE Str(text)

\* the body of GET: the session of getSession first, then the wallet cookie
\* of the request decoded by the route itself
authMe(session, header, key, nowSec) ==
    IF HasUserId(session)
    THEN MeResponse(Str(session.user.id), OrNull(session.user.email), Null)
    ELSE LET siweCookie == IF header = Null THEN Undefined
                           ELSE FindSiweCookie(header.cookies)
             payload == decodeAndVerifySiweCookie(
                            IF siweCookie = Undefined THEN Undefined ELSE siweCookie.value,
                            key, nowSec)
         IN  IF ~Falsy(payload, "uid") \/ ~Falsy(payload, "addr")
             THEN MeResponse(IF Falsy(payload, "uid") THEN Null ELSE Str(payload.uid),
                             IF Falsy(payload, "addr") THEN Null
                             ELSE Str(toChecksumLower(payload.addr) \o "@wallet.user"),
                             IF Falsy(payload, "addr") THEN Null ELSE Str(payload.addr))
             ELSE NobodyResponse

\* GET /api/auth/me: getSession (rejects: the provider call throws; throws:
\* what getSession catches itself), then authMe; the route's catch block
\* answers like for nobody
GetAuthMe(fed, header, throws, rejects) ==
    LET key == getInternalApiSecretKey(env, cachedKey)
        out == getSession(fed, header, key, now)
        threw == throws /\ out.consulted
        session == IF threw THEN Null ELSE out.result
        siweCookie == IF header = Null THEN Undefined ELSE FindSiweCookie(header.cookies)
    IN  /\ sess' = [op |-> "me", fed |-> fed, header |-> header,
                    result |-> IF rejects THEN NobodyResponse
                               ELSE authMe(session, header, key, now),
                    consulted |-> out.consulted, threw |-> threw, key |-> key, at |-> now]
        /\ cachedKey' = IF ~rejects /\ siweCookie # Undefined
                           /\ ~HasUserId(fed) /\ Len(siweCookie.value.parts) = 2
                        THEN key ELSE cachedKey
        /\ UNCHANGED <<now, env, handshakeVars, codecVars, guardVars, tierVars, routeVars, knowledgeVars, resolveVars>>

NextMe ==
    \/ \E fed \in FederatedResults, header \in Headers, throws \in BOOLEAN, rejects \in BOOLEAN :
          GetAuthMe(fed, header, throws, rejects)
    \/ \E e \in Envs : SessionSetEnv(e)
    \/ SessionTick

SpecMe == InitCodec /\ [][NextMe]_vars

(***************************************************************************)
(* The ownership resolver: verifyNonFungibleTokenOwnership                 *)
(* (nft-verification.ts), one action per chain read, and the ledger of     *)
(* the gating contract changing between the reads.                         *)
(***************************************************************************)
\* addresses that hold tokens, as the contract returns them
Holders == {"0xAb", "0xCd"}
\* wallet addresses handed to the resolver, checksummed or lower case
Wallets == {"0xAb", "0xab", "0xCd"}
GatingContract == "0xC0"

\* String.prototype.toLowerCase on an address
toLowerCase(addr) == toChecksumLower(addr)

BigInt(n) == [t |-> "bigint", v |-> n]
Num(n) == [t |-> "number", v |-> n]
\* an empty entry of a comma-separated list: Number('') is 0
Blank == [t |-> "blank", v |-> ""]
NumberOf(item) == IF item = Blank THEN 0 ELSE item.v

\* the text of an environment variable holding a comma-separated list
List(items) == [t |-> "list", items |-> items]

\* process.env.X?.split(',').map(Number) ?? []
ParseIdentifiers(text) ==
    IF text = Undefined THEN {}
    ELSE {NumberOf(text.items[i]) : i \in 1..Len(text.items)}

getTierFromTokenIdentifier(tokenIdentifier, e) ==
    IF tokenIdentifier \in ParseIdentifiers(e.enterprise) THEN "enterprise"
    ELSE IF tokenIdentifier \in ParseIdentifiers(e.premium) THEN "premium"
    ELSE "standard"

\* the ERC-721 views of the ledger
OwnedBy(c, wallet) == {t \in TokenIds : c.owner[t] # "" /\ toLowerCase(c.owner[t]) = toLowerCase(wallet)}
balanceOf(c, wallet) == Cardinality(OwnedBy(c, wallet))
\* ownerOf reverts for a token nobody holds, and else returns its holder
OwnerOfReverts(c, t) == c.owner[t] = ""
ownerOf(c, t) == c.owner[t]

VerificationFailed == [error |-> "VERIFICATION_FAILED"]

NotOwner(ownedTokenCount) ==
    [hasNonFungibleToken |-> FALSE, tier |-> "none",
     ownedTokenCount |-> ownedTokenCount, isOwner |-> FALSE]

Owner(tokenIdentifier, tier, ownedTokenCount, uri) ==
    [hasNonFungibleToken |-> TRUE, tokenIdentifier |-> tokenIdentifier, tier |-> tier,
     ownedTokenCount |-> ownedTokenCount, isOwner |-> TRUE,
     tokenMetadata |-> [tokenUniformResourceIdentifier |-> uri]]

\* !tokenIdentifier: undefined and 0 are falsy
FalsyIdentifier(tokenIdentifier) == tokenIdentifier = Undefined \/ tokenIdentifier = Num(0)

Running(pc) == rv.pc = pc
Ended(run, result) == [run EXCEPT !.pc = "done", !.result = result]
\* a read ends (answered or failed for good): tries keeps how many of its
\* attempts the transport had retried
Issued(run, read) ==
    [run EXCEPT !.reads = Append(run.reads, read),
                !.tries = Append(run.tries, run.attempts),
                !.attempts = 0]
\* the read named step ended in an RPC failure or a timeout, not in an answer
Failing(run, fails, step) == IF fails THEN [run EXCEPT !.failed = run.failed \cup {step}] ELSE run

\* mutant: the reads start whether or not a contract address is configured
StartResolveUnchecked(wallet) ==
    /\ rv.pc \in {"idle", "done"}
    /\ rv' = [IdleRun EXCEPT !.wallet = wallet, !.pc = "balance"]
    /\ UNCHANGED <<now, env, cachedKey, handshakeVars, codecVars, guardVars, tierVars, routeVars, knowledgeVars, sessionVars, chain, nftEnv>>

\* step 1: the configuration is checked before any chain read
StartResolve(wallet) ==
    /\ rv.pc \in {"idle", "done"}
    /\ rv' = IF nftEnv.contract = ""
             THEN Ended([IdleRun EXCEPT !.wallet = wallet], VerificationFailed)
             ELSE [IdleRun EXCEPT !.wallet = wallet, !.pc = "balance"]
    /\ UNCHANGED <<now, env, cachedKey, handshakeVars, codecVars, guardVars, tierVars, routeVars, knowledgeVars, sessionVars, chain, nftEnv>>

\* mutant: a balance of zero does not end the call
ReadBalanceNoEarlyReturn(fails) ==
    /\ Running("balance")
    /\ LET run == Failing(Issued(rv, "balanceOf"), fails, "balance")
           ownedTokenCount == BigInt(balanceOf(chain, rv.wallet))
       IN  rv' = IF fails THEN Ended(run, VerificationFailed)
                 ELSE [run EXCEPT !.ownedTokenCount = ownedTokenCount,
                                  !.pc = "enumerate"]
    /\ UNCHANGED <<now, env, cachedKey, handshakeVars, codecVars, guardVars, tierVars, routeVars, knowledgeVars, sessionVars, chain, nftEnv>>

\* step 3: contract.read.balanceOf([walletAddress])
ReadBalance(fails) ==
    /\ Running("balance")
    /\ LET run == Failing(Issued(rv, "balanceOf"), fails, "balance")
           ownedTokenCount == BigInt(balanceOf(chain, rv.wallet))
       IN  rv' = IF fails THEN Ended(run, VerificationFailed)
                 ELSE IF ownedTokenCount = BigInt(0)
                      THEN Ended([run EXCEPT !.ownedTokenCount = ownedTokenCount],
                                 NotOwner(BigInt(0)))
                 ELSE [run EXCEPT !.ownedTokenCount = ownedTokenCount,
                                  !.pc = "enumerate"]
    /\ UNCHANGED <<now, env, cachedKey, handshakeVars, codecVars, guardVars, tierVars, routeVars, knowledgeVars, sessionVars, chain, nftEnv>>

\* after step 4: without a truthy identifier the call ends as not owning
AfterIdentifier(run) ==
    IF FalsyIdentifier(run.tokenIdentifier)
    THEN Ended(run, NotOwner(run.ownedTokenCount))
    ELSE [run EXCEPT !.pc = "confirm"]

\* step 4: contract.read.tokenOfOwnerByIndex([walletAddress, 0n]); a failure
\* or a revert leads to the fallback lookup
ReadTokenOfOwnerByIndex(fails, t) ==
    /\ Running("enumerate")
    /\ LET run == Failing(Issued(rv, "tokenOfOwnerByIndex"), fails, "enumerate")
       IN  IF fails \/ ~chain.enumerable \/ OwnedBy(chain, rv.wallet) = {}
           THEN rv' = [run EXCEPT !.pc = "fallback"]
           ELSE /\ t \in OwnedBy(chain, rv.wallet)
                /\ rv' = AfterIdentifier([run EXCEPT !.tokenIdentifier = Num(t)])
    /\ UNCHANGED <<now, env, cachedKey, handshakeVars, codecVars, guardVars, tierVars, routeVars, knowledgeVars, sessionVars, chain, nftEnv>>

\* the fallback lookup: contract.read.ownerOf([1n]); its failure is swallowed
ReadOwnerOfOne(fails) ==
    /\ Running("fallback")
    /\ LET run == Failing(Issued(rv, "ownerOf"), fails, "fallback")
           tokenOwnerAddress == ownerOf(chain, 1)
       IN  rv' = IF fails \/ OwnerOfReverts(chain, 1) THEN AfterIdentifier(run)
                 ELSE IF toLowerCase(tokenOwnerAddress) = toLowerCase(rv.wallet)
                      THEN AfterIdentifier([run EXCEPT !.tokenIdentifier = Num(1)])
                 ELSE AfterIdentifier(run)
    /\ UNCHANGED <<now, env, cachedKey, handshakeVars, codecVars, guardVars, tierVars, routeVars, knowledgeVars, sessionVars, chain, nftEnv>>

\* mutant: the owner the confirming read returns is not compared
ReadOwnerOfUncompared(fails) ==
    /\ Running("confirm")
    /\ LET run == Failing(Issued(rv, "ownerOf"), fails, "confirm")
       IN  rv' = IF fails \/ OwnerOfReverts(chain, rv.tokenIdentifier.v)
                 THEN Ended(run, VerificationFailed)
                 ELSE [run EXCEPT !.pc = "uri"]
    /\ UNCHANGED <<now, env, cachedKey, handshakeVars, codecVars, guardVars, tierVars, routeVars, knowledgeVars, sessionVars, chain, nftEnv>>

\* step 5: contract.read.ownerOf([BigInt(tokenIdentifier)])
ReadOwnerOf(fails) ==
    /\ Running("confirm")
    /\ LET run == Failing(Issued(rv, "ownerOf"), fails, "confirm")
           tokenOwnerAddress == ownerOf(chain, rv.tokenIdentifier.v)
       IN  rv' = IF fails \/ OwnerOfReverts(chain, rv.tokenIdentifier.v)
                 THEN Ended(run, VerificationFailed)
                 ELSE IF toLowerCase(tokenOwnerAddress) # toLowerCase(rv.wallet)
                      THEN Ended(run, NotOwner(rv.ownedTokenCount))
                 ELSE [run EXCEPT !.pc = "uri"]
    /\ UNCHANGED <<now, env, cachedKey, handshakeVars, codecVars, guardVars, tierVars, routeVars, knowledgeVars, sessionVars, chain, nftEnv>>

\* step 6: the tier, and contract.read.tokenURI, whose failure is swallowed
ReadTokenURI(fails) ==
    /\ Running("uri")
    /\ LET run == Failing(Issued(rv, "tokenURI"), fails, "uri")
           tokenIdentifier == rv.tokenIdentifier.v
           tier == getTierFromTokenIdentifier(tokenIdentifier, nftEnv)
           uri == IF fails THEN Undefined ELSE [t |-> "uri", of |-> tokenIdentifier]
       IN  rv' = Ended(run, Owner(tokenIdentifier, tier, rv.ownedTokenCount, uri))
    /\ UNCHANGED <<now, env, cachedKey, handshakeVars, codecVars, guardVars, tierVars, routeVars, knowledgeVars, sessionVars, chain, nftEnv>>

\* http(url, { retryCount: 3, ... }): the retries the transport makes per read
retryCount == 3

ReadSteps == {"balance", "enumerate", "fallback", "confirm", "uri"}

\* mutant: the transport retries once more than configured
RetryReadOnceMore ==
    /\ rv.pc \in ReadSteps
    /\ rv.attempts <= retryCount
    /\ rv' = [rv EXCEPT !.attempts = rv.attempts + 1]
    /\ UNCHANGED <<now, env, cachedKey, handshakeVars, codecVars, guardVars, tierVars, routeVars, knowledgeVars, sessionVars, chain, nftEnv>>

\* an attempt of the read in progress times out and the transport sends it
\* again; the failure of the last attempt it is allowed ends the read
RetryRead ==
    /\ rv.pc \in ReadSteps
    /\ rv.attempts < retryCount
    /\ rv' = [rv EXCEPT !.attempts = rv.attempts + 1]
    /\ UNCHANGED <<now, env, cachedKey, handshakeVars, codecVars, guardVars, tierVars, routeVars, knowledgeVars, sessionVars, chain, nftEnv>>

\* the ledger changes: a token is minted, transferred or burnt
Transfer(t, to) ==
    /\ chain.owner[t] # to
    /\ chain' = [chain EXCEPT !.owner[t] = to]
    /\ UNCHANGED <<now, env, cachedKey, handshakeVars, codecVars, guardVars, tierVars, routeVars, knowledgeVars, sessionVars, nftEnv, rv>>

\* configurations of the resolver's process.env
NftEnvs ==
    { NoNftEnv,
      [contract |-> GatingContract, premium |-> Undefined, enterprise |-> Undefined],
      [contract |-> GatingContract, premium |-> List(<<Num(1)>>), enterprise |-> List(<<Num(7)>>)],
      [contract |-> GatingContract, premium |-> List(<<Num(1), Num(7)>>),
       enterprise |-> List(<<Num(7)>>)],
      [contract |-> GatingContract, premium |-> List(<<Blank>>), enterprise |-> Undefined] }

InitResolve ==
    /\ now = 0
    /\ env = DefaultEnv
    /\ cachedKey = Null
    /\ redisUrl = FALSE
    /\ redisClient = FALSE
    /\ store = [n \in Nonces |-> 0]
    /\ issued = {}
    /\ users = {}
    /\ req = [r \in ReqIds |-> IdleReq]
    /\ last = NoCall
    /\ sess = NoSessionCall
    /\ chain \in {[owner |-> [t \in TokenIds |-> ""], enumerable |-> b] : b \in BOOLEAN}
    /\ nftEnv \in NftEnvs
    /\ rv = IdleRun
    /\ access = Null
    /\ gd = IdleGuard
    /\ tc = NoTierCall
    /\ RoutesIdle

NextResolve ==
    \/ \E wallet \in Wallets : StartResolve(wallet)
    \/ \E fails \in BOOLEAN : ReadBalance(fails)
    \/ \E fails \in BOOLEAN, t \in TokenIds : ReadTokenOfOwnerByIndex(fails, t)
    \/ \E fails \in BOOLEAN : ReadOwnerOfOne(fails)
    \/ \E fails \in BOOLEAN : ReadOwnerOf(fails)
    \/ \E fails \in BOOLEAN : ReadTokenURI(fails)
    \/ \E t \in TokenIds, to \in Holders \cup {""} : Transfer(t, to)

SpecResolve == InitResolve /\ [][NextResolve]_vars

\* ledgers for resolving over an unreliable transport
Ledgers ==
    { [owner |-> [t \in TokenIds |-> ""], enumerable |-> TRUE],
      [owner |-> [t \in TokenIds |-> IF t = 7 THEN "0xAb" ELSE ""], enumerable |-> TRUE],
      [owner |-> [t \in TokenIds |-> IF t = 1 THEN "0xAb" ELSE ""], enumerable |-> FALSE],
      [owner |-> [t \in TokenIds |-> IF t = 1 THEN "0xCd" ELSE "0xAb"], enumerable |-> FALSE] }

InitRetry ==
    /\ now = 0
    /\ env = DefaultEnv
    /\ cachedKey = Null
    /\ redisUrl = FALSE
    /\ redisClient = FALSE
    /\ store = [n \in Nonces |-> 0]
    /\ issued = {}
    /\ users = {}
    /\ req = [r \in ReqIds |-> IdleReq]
    /\ last = NoCall
    /\ sess = NoSessionCall
    /\ chain \in Ledgers
    /\ nftEnv \in {e \in NftEnvs : e.contract # "" /\ e.premium = List(<<Num(1)>>)}
    /\ rv = IdleRun
    /\ access = Null
    /\ gd = IdleGuard
    /\ tc = NoTierCall
    /\ RoutesIdle

\* a call of the resolver moves on: an attempt is retried or a read ends
RunStep ==
    \/ RetryRead
    \/ \E fails \in BOOLEAN : ReadBalance(fails)
    \/ \E fails \in BOOLEAN, t \in TokenIds : ReadTokenOfOwnerByIndex(fails, t)
    \/ \E fails \in BOOLEAN : ReadOwnerOfOne(fails)
    \/ \E fails \in BOOLEAN : ReadOwnerOf(fails)
    \/ \E fails \in BOOLEAN : ReadTokenURI(fails)

NextRetry ==
    \/ \E wallet \in Holders : StartResolve(wallet)
    \/ RunStep

SpecRetry == InitRetry /\ [][NextRetry]_vars

\* every attempt ends (answer, error or the transport's timeout) and the
\* awaiting call is resumed
SpecRetryFair == SpecRetry /\ WF_vars(RunStep)

(***************************************************************************)
(* Tier limits (nft-verification.ts) and the tier guard: getCurrentUser-   *)
(* Context, hasRequiredTier, withUserGuard and the two usage helpers.      *)
(***************************************************************************)
LimitNames ==
    {"maxWorkflows", "maxWorkspaces", "maxApiCalls", "maxStorageMB",
     "maxAgents", "maxSchedules", "maxWebhooks"}

TierLimitsTable ==
    [enterprise |-> [maxWorkflows |-> 100, maxWorkspaces |-> 10, maxApiCalls |-> 100000,
                     maxStorageMB |-> 10000, maxAgents |-> 20, maxSchedules |-> 50,
                     maxWebhooks |-> 25],
     premium |-> [maxWorkflows |-> 50, maxWorkspaces |-> 5, maxApiCalls |-> 10000,
                  maxStorageMB |-> 1000, maxAgents |-> 10, maxSchedules |-> 20,
                  maxWebhooks |-> 10],
     standard |-> [maxWorkflows |-> 10, maxWorkspaces |-> 2, maxApiCalls |-> 1000,
                   maxStorageMB |-> 100, maxAgents |-> 3, maxSchedules |-> 5,
                   maxWebhooks |-> 3],
     none |-> [maxWorkflows |-> 0, maxWorkspaces |-> 0, maxApiCalls |-> 0,
               maxStorageMB |-> 0, maxAgents |-> 0, maxSchedules |-> 0,
               maxWebhooks |-> 0]]

\* names every object literal inherits from Object.prototype
InheritedProperties == {"constructor", "toString"}
Inherited(name) == [t |-> "inherited", name |-> name]

\* tierLimits[tier] ?? tierLimits.none: the lookup finds own and inherited
\* properties, and ?? replaces only null and undefined
getTierLimits(tier) ==
    IF tier \in DOMAIN TierLimitsTable THEN TierLimitsTable[tier]
    ELSE IF tier \in InheritedProperties THEN Inherited(tier)
    ELSE TierLimitsTable.none

tiers == <<"none", "standard", "premium", "enterprise">>

\* Array.prototype.indexOf, counted from 0, -1 when absent
indexOf(array, item) ==
    IF \E i \in 1..Len(array) : array[i] = item
    THEN (CHOOSE i \in 1..Len(array) :
              array[i] = item /\ \A j \in 1..(i - 1) : array[j] # item) - 1
    ELSE -1

\* mutant: the required tier itself does not satisfy the requirement
hasRequiredTierAbove(userTier, requiredTier) ==
    indexOf(tiers, userTier) > indexOf(tiers, requiredTier)

hasRequiredTier(userTier, requiredTier) ==
    indexOf(tiers, userTier) >= indexOf(tiers, requiredTier)

\* String.prototype.toUpperCase on a status
toUpperCase(status) ==
    CASE status = "pending" -> "PENDING"
      [] status = "verified" -> "VERIFIED"
      [] status = "expired" -> "EXPIRED"
      [] status = "revoked" -> "REVOKED"
      [] OTHER -> status

\* a row of userNftAccess
AccessRow(tier, status, apiCalls, storage) ==
    [tier |-> tier, status |-> status, walletAddress |-> "0xab",
     resourceLimits |-> getTierLimits(tier),
     currentUsage |-> [apiCallsThisMonth |-> apiCalls, storageUsedMB |-> storage]]

\* the outcome of a guarded call: an error thrown to the caller, or the
\* operation's result
Thrown(message) == [error |-> message]
Returned == [value |-> "result"]

\* getCurrentUserContext past the session: the row decides
ContextOf(userId, row) ==
    IF row = Null THEN Thrown("NFT_ACCESS_NOT_FOUND")
    ELSE IF row.status # "verified" THEN Thrown("NFT_STATUS_" \o toUpperCase(row.status))
    ELSE [userId |-> userId, walletAddress |-> row.walletAddress, tier |-> row.tier,
          status |-> row.status, limits |-> row.resourceLimits, usage |-> row.currentUsage]

\* options.requireTier.some((tier) => hasRequiredTier(userContext.tier, tier))
hasTier(userTier, requireTier) ==
    \E i \in 1..Len(requireTier.items) : hasRequiredTier(userTier, requireTier.items[i])

\* getResourceUsage: a placeholder that returns 0
getResourceUsage(userId, resource) == 0

Called(run, call) == [run EXCEPT !.calls = Append(run.calls, call)]
Finished(run, result) == [run EXCEPT !.pc = "done", !.result = result]

\* withUserGuard is called: getSession, then UNAUTHORIZED without a user id
GuardStart(options, session) ==
    /\ gd.pc \in {"idle", "done"}
    /\ LET run == Called([IdleGuard EXCEPT !.options = options, !.session = session],
                         "getSession")
       IN  gd' = IF ~HasUserId(session) THEN Finished(run, Thrown("UNAUTHORIZED"))
                 ELSE [run EXCEPT !.pc = "load", !.userId = session.user.id]
    /\ UNCHANGED <<now, env, cachedKey, handshakeVars, codecVars, sessionVars, resolveVars, tierVars, routeVars, knowledgeVars,
                   access>>

\* the row is loaded and checked, then the tier requirement (steps 1 and 2)
LoadAccess ==
    /\ gd.pc = "load"
    /\ LET run == Called(gd, "findFirst")
           userContext == ContextOf(gd.userId, access)
       IN  gd' = IF "error" \in DOMAIN userContext THEN Finished(run, userContext)
                 ELSE IF gd.options.requireTier # Undefined
                         /\ ~hasTier(userContext.tier, gd.options.requireTier)
                      THEN Finished([run EXCEPT !.context = userContext],
                                    Thrown("INSUFFICIENT_TIER"))
                 ELSE [run EXCEPT !.context = userContext,
                                  !.pc = IF gd.options.checkResource # ""
                                         THEN "usage" ELSE "operation"]
    /\ UNCHANGED <<now, env, cachedKey, handshakeVars, codecVars, sessionVars, resolveVars, tierVars, routeVars, knowledgeVars,
                   access>>

\* step 3: the usage is read and compared with the limit of the context
CheckResource ==
    /\ gd.pc = "usage"
    /\ LET run == Called(gd, "getResourceUsage")
           limit == gd.context.limits[gd.options.checkResource]
           currentUsage == getResourceUsage(gd.userId, gd.options.checkResource)
       IN  gd' = IF currentUsage >= limit
                 THEN Finished(run, Thrown("RESOURCE_LIMIT_EXCEEDED"))
                 ELSE [run EXCEPT !.pc = "operation"]
    /\ UNCHANGED <<now, env, cachedKey, handshakeVars, codecVars, sessionVars, resolveVars, tierVars, routeVars, knowledgeVars,
                   access>>

\* mutant: the usage is counted whether or not the operation succeeded
OperationAlwaysCounted(throws) ==
    /\ gd.pc = "operation"
    /\ LET run == Called(gd, IF throws THEN "operation throws" ELSE "operation returns")
       IN  gd' = IF gd.options.incrementUsage # "" THEN [run EXCEPT !.pc = "increment"]
                 ELSE IF throws THEN Finished(run, Thrown("OPERATION_FAILED"))
                 ELSE Finished(run, Returned)
    /\ UNCHANGED <<now, env, cachedKey, handshakeVars, codecVars, sessionVars, resolveVars, tierVars, routeVars, knowledgeVars,
                   access>>

\* step 4: the operation runs; what it throws goes to the caller
Operation(throws) ==
    /\ gd.pc = "operation"
    /\ LET run == Called(gd, IF throws THEN "operation throws" ELSE "operation returns")
       IN  gd' = IF throws THEN Finished(run, Thrown("OPERATION_FAILED"))
                 ELSE IF gd.options.incrementUsage # "" THEN [run EXCEPT !.pc = "increment"]
                 ELSE Finished(run, Returned)
    /\ UNCHANGED <<now, env, cachedKey, handshakeVars, codecVars, sessionVars, resolveVars, tierVars, routeVars, knowledgeVars,
                   access>>

\* step 5: incrementResourceUsage, which does nothing
IncrementUsage ==
    /\ gd.pc = "increment"
    /\ gd' = Finished(Called(gd, "incrementResourceUsage"), Returned)
    /\ UNCHANGED <<now, env, cachedKey, handshakeVars, codecVars, sessionVars, resolveVars, tierVars, routeVars, knowledgeVars,
                   access>>

\* the row changes under the guard: entitlement sync, usage recorded elsewhere
SetAccess(row) ==
    /\ row # access
    /\ access' = row
    /\ UNCHANGED <<now, env, cachedKey, handshakeVars, codecVars, sessionVars, resolveVars, tierVars, routeVars, knowledgeVars, gd>>

StandardLimits == getTierLimits("standard")

\* rows of the caller: every tier verified and unused, the standard tier one
\* short of its limits and at them, and the statuses that are not verified
AccessRows ==
    {AccessRow(tier, "verified", 0, 0) :
         tier \in {"none", "standard", "premium", "enterprise", "gold"}}
    \cup {AccessRow("standard", "verified", StandardLimits.maxApiCalls - 1,
                    StandardLimits.maxStorageMB - 1),
          AccessRow("standard", "verified", StandardLimits.maxApiCalls,
                    StandardLimits.maxStorageMB)}
    \cup {AccessRow("standard", status, 0, 0) : status \in {"pending", "expired", "revoked"}}

GuardOptions ==
    [requireTier : {Undefined, List(<<>>), List(<<"standard">>), List(<<"premium">>),
                    List(<<"enterprise">>), List(<<"premium", "enterprise">>)},
     checkResource : {"", "maxApiCalls", "maxStorageMB", "maxWorkflows"},
     incrementUsage : {"", "apiCallsThisMonth"}]

InitGuard ==
    /\ now = 0
    /\ env = DefaultEnv
    /\ cachedKey = Null
    /\ redisUrl = FALSE
    /\ redisClient = FALSE
    /\ store = [n \in Nonces |-> 0]
    /\ issued = {}
    /\ users = {}
    /\ req = [r \in ReqIds |-> IdleReq]
    /\ last = NoCall
    /\ sess = NoSessionCall
    /\ chain = EmptyChain
    /\ nftEnv = NoNftEnv
    /\ rv = IdleRun
    /\ access \in AccessRows \cup {Null}
    /\ gd = IdleGuard
    /\ tc = NoTierCall
    /\ RoutesIdle

NextGuard ==
    \/ \E options \in GuardOptions, session \in FederatedResults : GuardStart(options, session)
    \/ LoadAccess
    \/ CheckResource
    \/ \E throws \in BOOLEAN : Operation(throws)
    \/ IncrementUsage
    \/ \E row \in AccessRows \cup {Null} : SetAccess(row)

SpecGuard == InitGuard /\ [][NextGuard]_vars

(***************************************************************************)
(* The tier functions called on their own: getTierFromTokenIdentifier      *)
(* under the tier lists of process.env, and getTierLimits.                 *)
(***************************************************************************)
MaxTokenIdentifier == 10
TierTokenIdentifiers == 0..MaxTokenIdentifier

\* the text "a,...,b" split at its commas
Range(a, b) == List([i \in 1..(b - a + 1) |-> Num(a + i - 1)])

\* values of TIER_PREMIUM_TOKEN_IDS and TIER_ENTERPRISE_TOKEN_IDS: unset,
\* the empty string, and lists of identifiers
TierLists == {Undefined, List(<<Blank>>), Range(1, 5), Range(6, 10), List(<<Num(7)>>)}

TierEnvs == [contract : {GatingContract}, premium : TierLists, enterprise : TierLists]

TierNames == {"none", "standard", "premium", "enterprise", "gold", "", "constructor", "toString"}

SetTierEnv(e) ==
    /\ e # nftEnv
    /\ nftEnv' = e
    /\ UNCHANGED <<now, env, cachedKey, handshakeVars, codecVars, sessionVars, chain, rv,
                   guardVars, tierVars, routeVars, knowledgeVars>>

ClassifyToken(t) ==
    /\ tc' = [op |-> "getTierFromTokenIdentifier", arg |-> Num(t), env |-> nftEnv,
              result |-> [tier |-> getTierFromTokenIdentifier(t, nftEnv)]]
    /\ UNCHANGED <<now, env, cachedKey, handshakeVars, codecVars, sessionVars, resolveVars,
                   guardVars, routeVars, knowledgeVars>>

LimitsOfTier(tier) ==
    /\ tc' = [op |-> "getTierLimits", arg |-> [tier |-> tier], result |-> getTierLimits(tier)]
    /\ UNCHANGED <<now, env, cachedKey, handshakeVars, codecVars, sessionVars, resolveVars,
                   guardVars, routeVars, knowledgeVars>>

InitTiers ==
    /\ now = 0
    /\ env = DefaultEnv
    /\ cachedKey = Null
    /\ redisUrl = FALSE
    /\ redisClient = FALSE
    /\ store = [n \in Nonces |-> 0]
    /\ issued = {}
    /\ users = {}
    /\ req = [r \in ReqIds |-> IdleReq]
    /\ last = NoCall
    /\ sess = NoSessionCall
    /\ chain = EmptyChain
    /\ nftEnv \in TierEnvs
    /\ rv = IdleRun
    /\ access = Null
    /\ gd = IdleGuard
    /\ tc = NoTierCall
    /\ RoutesIdle

NextTiers ==
    \/ \E e \in TierEnvs : SetTierEnv(e)
    \/ \E t \in TierTokenIdentifiers : ClassifyToken(t)
    \/ \E tier \in TierNames : LimitsOfTier(tier)

SpecTiers == InitTiers /\ [][NextTiers]_vars

(***************************************************************************)
(* Claims about the handshake.                                             *)
(***************************************************************************)
\* the request passed siwe.verify: valid signature, matching domain
Verified(r) ==
    /\ req[r].pc # "idle"
    /\ req[r].address # ""
    /\ SiweVerify(req[r].address, req[r].recovered, req[r].domain, req[r].host)

\* the request is past the nonce check and was let through
PassedNonceCheck(r) ==
    \/ req[r].pc \in {"del", "select", "insert"}
    \/ req[r].pc = "done" /\ req[r].response.status = 200

RejectedForNonce(r) ==
    /\ req[r].pc = "done"
    /\ req[r].response = JsonError(401, "Nonce expired/used")

\* r is the first verified request that presented its nonce
FirstPresenter(r) ==
    \A q \in req[r].begun : ~(Verified(q) /\ req[q].nonce = req[r].nonce)

\* C1 as stated: with the shared store in use, the first verified request that
\* presents an issued nonce N passes the nonce check, and every verified
\* request presenting N that started after a passing one completed is
\* rejected with 401 and no cookie.
C1_FirstPassesReplayFails ==
    RedisInUse =>
        \A r \in ReqIds :
            (Verified(r) /\ req[r].nonce \in issued /\ req[r].pc # "get") =>
                /\ FirstPresenter(r) => PassedNonceCheck(r)
                /\ (\E q \in req[r].finished :
                        /\ Verified(q) /\ req[q].nonce = req[r].nonce
                        /\ req[q].response.status = 200)
                   => RejectedForNonce(r)

\* a verified request that started after a request with the same nonce had
\* completed successfully is rejected with 401 and gets no cookie
ReplayRejected ==
    \A r \in ReqIds :
        (/\ Verified(r)
         /\ \E q \in req[r].finished :
                /\ Verified(q) /\ req[q].nonce = req[r].nonce
                /\ req[q].response.status = 200)
        => /\ req[r].pc \in {"get", "done"}
           /\ req[r].pc = "done" => RejectedForNonce(r) /\ req[r].response.cookie = Null

\* the nonce check of r runs in this step: it lets r through exactly when
\* the nonce is in the store and unexpired
NonceCheckStep(r) ==
    (req[r].pc = "get" /\ req'[r].pc # "get") =>
        IF RedisGet(req[r].nonce)
        THEN req'[r].pc = "del"
        ELSE req'[r].pc = "done" /\ req'[r].response = JsonError(401, "Nonce expired/used")

\* the delete of r runs in this step: the nonce is gone from the store
NonceDeleteStep(r) ==
    (req[r].pc = "del" /\ req'[r].pc # "del") => ~RedisGet(req[r].nonce)'

\* C1 (amended): with the shared store in use, a verified request whose nonce
\* check finds N still stored (issued, not expired after its 300 s, not yet
\* deleted) passes the check and deletes N; every verified request presenting
\* N that started after a passing one completed is rejected with 401 and
\* sets no cookie.
C1_StoredNoncePassesOnceThenReplayFails ==
    [][RedisInUse =>
          /\ \A r \in ReqIds : NonceCheckStep(r) /\ NonceDeleteStep(r)
          /\ ReplayRejected']_vars

C1_Witness ==
    /\ RedisInUse
    /\ \E r, q \in ReqIds :
          /\ Verified(r) /\ Verified(q) /\ req[q].nonce = req[r].nonce
          /\ q \in req[r].finished
          /\ req[q].response.status = 200
          /\ RejectedForNonce(r)

\* C2: at most one verified request per issued nonce passes the nonce check,
\* under every interleaving of the store reads and deletes, so at most one
\* session cookie is issued per nonce.
C2_AtMostOnePassPerNonce ==
    RedisInUse =>
        \A n \in Nonces :
            Cardinality({r \in ReqIds : Verified(r) /\ req[r].nonce = n
                                         /\ PassedNonceCheck(r)}) <= 1

\* C7: a verified signature over a message whose domain differs from the host
\* of the request URL is rejected: the request ends at once with an error
\* status, without cookie and without touching a user.
C7_DomainBinding ==
    \A r \in ReqIds :
        (/\ req[r].pc # "idle" /\ req[r].address # ""
         /\ req[r].recovered = req[r].address
         /\ req[r].domain # req[r].host)
        => /\ req[r].pc = "done"
           /\ req[r].response.status \in {401, 500}
           /\ req[r].response.cookie = Null
           /\ req[r].uid = ""

C7_Witness ==
    \E r \in ReqIds :
        /\ req[r].pc = "done" /\ req[r].recovered = req[r].address /\ req[r].address # ""
        /\ req[r].domain = BaseUrlHost /\ req[r].host # BaseUrlHost
        /\ req[r].nonce \in issued
        /\ req[r].response.status \in {401, 500}

\* C8: a verify request whose signature does not recover the claimed address
\* ends in the step that checks it, with no cookie, no user row written and
\* the store (its nonce included) left as it was.
C8_BadSignatureNoEffect ==
    [][\A r \in ReqIds :
          (req[r].pc = "idle" /\ req'[r].pc # "idle"
           /\ req'[r].recovered # req'[r].address)
          => /\ req'[r].pc = "done"
             /\ req'[r].response.cookie = Null
             /\ req'[r].response.status # 200
             /\ users' = users
             /\ store' = store]_vars

C8_Witness ==
    \E r \in ReqIds :
        /\ req[r].pc = "done" /\ req[r].recovered # req[r].address
        /\ RedisGet(req[r].nonce)
        /\ req[r].response.cookie = Null

(***************************************************************************)
(* Claims about the cookie codec.                                          *)
(***************************************************************************)
Decoded == last.op \in {"decodeNode", "decodeEdge"}

\* the last call decoded the token that encoding p under the call's key yields
DecodedTokenOf(p) ==
    /\ Decoded
    /\ last.key # Throw
    /\ last.arg = encodeSignedSiweCookie(p, last.key)

\* C3: decoding the token of a payload whose four members are present and
\* whose exp is later than the time of the call, under the key it was encoded
\* with, returns that payload.
C3_RoundTrip ==
    \A p \in FullPayloads :
        (DecodedTokenOf(p) /\ p.exp > last.at) => last.result = p

C5_Expiry ==
    \A p \in FullPayloads :
        (DecodedTokenOf(p) /\ p.exp <= last.at) => last.result = Null

C5_Witness ==
    /\ last.op = "decodeEdge"
    /\ DecodedTokenOf(GoodPayload)
    /\ GoodPayload.exp = last.at
    /\ last.result = Null

\* C6: under every configuration with a secret, changed between calls or
\* not, the two encoders return the same token for the same payload and the
\* two decoders accept the same cookie values.
C6_CodecsInterchangeable ==
    HasSecret(env) =>
        /\ \A p \in FullPayloads :
              encodeSignedSiweCookie(p, getInternalApiSecretKey(env, cachedKey))
                  = encodeSignedSiweCookieEdge(p, env)
        /\ \A v \in CookieValues :
              (decodeAndVerifySiweCookie(v, getInternalApiSecretKey(env, cachedKey), now) # Null)
                  <=> (decodeAndVerifySiweCookieEdge(v, env, now) # Null)

(***************************************************************************)
(* Claims about getSession.                                                *)
(***************************************************************************)
\* a wallet cookie that the decoder accepts at the time of the call
CarriesValidWalletCookie ==
    /\ sess.header # Null
    /\ FindSiweCookie(sess.header.cookies) # Undefined
    /\ decodeAndVerifySiweCookie(FindSiweCookie(sess.header.cookies).value,
                                 getInternalApiSecretKey(env, cachedKey), sess.at) # Null

C10_ZeroBalanceNotOwner ==
    (rv.pc # "idle" /\ rv.ownedTokenCount = BigInt(0)) =>
        /\ rv.pc = "done"
        /\ rv.result = [hasNonFungibleToken |-> FALSE, tier |-> "none",
                        ownedTokenCount |-> BigInt(0), isOwner |-> FALSE]
        /\ rv.reads = <<"balanceOf">>

C10_Witness ==
    /\ rv.pc = "done"
    /\ rv.ownedTokenCount = BigInt(0)
    /\ rv.result.hasNonFungibleToken = FALSE
    /\ \E t \in TokenIds : chain.owner[t] \in Holders

\* the call ends in this step
ResolveEnds == rv.pc # "done" /\ rv'.pc = "done"

IsOwnerOf(read) == read = "ownerOf"

\* the identifier of the ending call came from the enumeration read: the
\* fallback probe, a first ownerOf before the confirming one, was not issued
Enumerated ==
    /\ rv.pc # "fallback"
    /\ rv'.tokenIdentifier # Undefined
    /\ Len(SelectSeq(rv'.reads, IsOwnerOf)) <= 1

\* C11: a call that ends without an error, whose enumeration read answered
\* with the token identifier t (t = 0 included) while ownerOf(t) is the
\* requested wallet, returns hasNonFungibleToken = true, isOwner = true,
\* tokenIdentifier = t and a tier among standard, premium, enterprise.
C11_ConfirmedOwnerResolves ==
    [][\A t \in TokenIds :
          (/\ ResolveEnds
           /\ rv'.result # VerificationFailed
           /\ Enumerated
           /\ rv'.tokenIdentifier = Num(t)
           /\ ~OwnerOfReverts(chain, t)
           /\ toLowerCase(ownerOf(chain, t)) = toLowerCase(rv.wallet))
          => /\ rv'.result.hasNonFungibleToken
             /\ rv'.result.isOwner
             /\ rv'.result.tokenIdentifier = t
             /\ rv'.result.tier \in {"standard", "premium", "enterprise"}]_vars

\* C12: a call in which the balance read, the enumeration read, the fallback
\* probe or the ownership confirmation ended in an RPC failure ends with
\* VERIFICATION_FAILED and returns no result.
RequiredReads == {"balance", "enumerate", "fallback", "confirm"}

C12_FailedReadFailsClosed ==
    (rv.pc = "done" /\ rv.failed \cap RequiredReads # {}) => rv.result = VerificationFailed

(***************************************************************************)
(* Claims about the tier guard.                                            *)
(***************************************************************************)
InCalls(call) == \E i \in 1..Len(gd.calls) : gd.calls[i] = call
Denied(message) == gd.pc = "done" /\ gd.result = Thrown(message)

\* C13: incrementResourceUsage is called only as the call right after the
\* operation returned; when the operation throws, or a check denies, the
\* guarded call ends with that error and without the increment.
C13_NoIncrementWithoutSuccess ==
    /\ \A i \in 1..Len(gd.calls) :
           gd.calls[i] = "incrementResourceUsage" =>
               i > 1 /\ gd.calls[i - 1] = "operation returns"
    /\ InCalls("operation throws") =>
           Denied("OPERATION_FAILED") /\ ~InCalls("incrementResourceUsage")
    /\ (gd.pc = "done" /\ "error" \in DOMAIN gd.result) => ~InCalls("incrementResourceUsage")

C13_Witness ==
    /\ gd.options.incrementUsage # ""
    /\ InCalls("operation throws")
    /\ Denied("OPERATION_FAILED")

\* the usage counter of the row that belongs to a limit
UsageCounter == [maxApiCalls |-> "apiCallsThisMonth", maxStorageMB |-> "storageUsedMB"]

\* the caller's usage in the category is at or above the limit of the tier
UsageAtLimit(row, tier, resource) ==
    row.currentUsage[UsageCounter[resource]] >= getTierLimits(tier)[resource]

MeteredCheck ==
    /\ gd.pc = "usage" /\ gd'.pc # "usage"
    /\ gd.options.checkResource \in DOMAIN UsageCounter
    /\ access # Null

\* C14: when the usage check of a guarded call runs and the caller's usage
\* in the checked category is at or above the limit of the tier, the call is
\* denied with RESOURCE_LIMIT_EXCEEDED without the operation being executed;
\* when the usage is below the limit the call goes on to the operation.
C14_DeniedAtLimit ==
    [][MeteredCheck =>
          IF UsageAtLimit(access, gd.context.tier, gd.options.checkResource)
          THEN gd'.pc = "done" /\ gd'.result = Thrown("RESOURCE_LIMIT_EXCEEDED")
          ELSE gd'.pc = "operation"]_vars

\* C15: when a guarded call with incrementUsage has run its operation with
\* success and ends, the caller's usage counter of that category is one more
\* than before.
C15_UsageIncremented ==
    [][(gd.pc = "increment" /\ gd'.pc = "done" /\ access # Null) =>
          access'.currentUsage[gd.options.incrementUsage]
              = access.currentUsage[gd.options.incrementUsage] + 1]_vars

\* the denial the checks up to the tier requirement give for a row, in their
\* order, "" when all of them pass
DenialOf(row, options) ==
    IF row = Null THEN "NFT_ACCESS_NOT_FOUND"
    ELSE IF row.status # "verified" THEN "NFT_STATUS_" \o toUpperCase(row.status)
    ELSE IF options.requireTier # Undefined
            /\ ~\E i \in 1..Len(options.requireTier.items) :
                   indexOf(tiers, row.tier) >= indexOf(tiers, options.requireTier.items[i])
         THEN "INSUFFICIENT_TIER"
    ELSE ""

\* the step ends the call with this error
DeniedNext(message) == gd'.pc = "done" /\ gd'.result = Thrown(message)

\* the checks in their order, the usage check trusted as the guard reads it
ChecksInOrder ==
    /\ (gd.pc \in {"idle", "done"} /\ gd'.pc # gd.pc /\ gd'.session = Null)
           => DeniedNext("UNAUTHORIZED")
    /\ (gd.pc = "load" /\ gd'.pc # "load") =>
           IF DenialOf(access, gd.options) # ""
           THEN DeniedNext(DenialOf(access, gd.options))
           ELSE gd'.pc \in {"usage", "operation"}
    /\ (gd'.pc = "done" /\ "error" \in DOMAIN gd'.result
           /\ gd'.result # Thrown("OPERATION_FAILED"))
           => \A i \in 1..Len(gd'.calls) :
                  gd'.calls[i] \notin {"operation returns", "operation throws"}

\* C16: the operation runs only after every check passed; the checks deny in
\* the order session, record, status, tier, usage, the first failing one
\* giving the error, usage at the limit giving RESOURCE_LIMIT_EXCEEDED; a
\* denied call has not executed the operation.
C16_ChecksInOrderThenOperation ==
    [][/\ ChecksInOrder
       /\ MeteredCheck =>
             (UsageAtLimit(access, gd.context.tier, gd.options.checkResource)
                  => DeniedNext("RESOURCE_LIMIT_EXCEEDED"))]_vars

\* the rank of a tier: none < standard < premium < enterprise, any other
\* value below none
Rank(tier) ==
    CASE tier = "none" -> 0
      [] tier = "standard" -> 1
      [] tier = "premium" -> 2
      [] tier = "enterprise" -> 3
      [] OTHER -> -1

\* C17: with requireTier given, a call whose row passed the record and
\* status checks gets past the tier check exactly when the rank of the row's
\* tier is at least the rank of one of the required tiers; an unknown tier
\* and an empty list are denied with INSUFFICIENT_TIER.
C17_TierRank ==
    (gd.context # Null /\ gd.options.requireTier # Undefined) =>
        (Denied("INSUFFICIENT_TIER")
            <=> ~\E i \in 1..Len(gd.options.requireTier.items) :
                    Rank(gd.context.tier) >= Rank(gd.options.requireTier.items[i]))

C17_Witness ==
    /\ gd.context # Null
    /\ gd.context.tier = "premium"
    /\ gd.options.requireTier = List(<<"premium", "enterprise">>)
    /\ InCalls("operation returns")

(***************************************************************************)
(* Claims about the tier functions.                                        *)
(***************************************************************************)
KnownTiers == {"none", "standard", "premium", "enterprise"}

\* limits(none) <= limits(standard) <= limits(premium) <= limits(enterprise)
\* in every component, maxWorkflows growing strictly from standard on
LimitsMonotone ==
    /\ \A name \in LimitNames :
           /\ getTierLimits("none")[name] <= getTierLimits("standard")[name]
           /\ getTierLimits("standard")[name] <= getTierLimits("premium")[name]
           /\ getTierLimits("premium")[name] <= getTierLimits("enterprise")[name]
    /\ getTierLimits("standard").maxWorkflows < getTierLimits("premium").maxWorkflows
    /\ getTierLimits("premium").maxWorkflows < getTierLimits("enterprise").maxWorkflows

\* C18: the limits are monotone in the tier rank, component by component,
\* maxWorkflows strictly from standard to premium to enterprise, and
\* getTierLimits of a name that is none of the four tiers returns the limits
\* of none, all zero.
C18_LimitsMonotoneUnknownNone ==
    /\ LimitsMonotone
    /\ (tc.op = "getTierLimits" /\ tc.arg.tier \notin KnownTiers) =>
           tc.result = [name \in LimitNames |-> 0]

\* the identifiers a list names: none when the variable is unset, and an
\* empty entry names none
Listed(text) ==
    IF text = Undefined THEN {}
    ELSE {text.items[i].v : i \in {j \in 1..Len(text.items) : text.items[j] # Blank}}

DecoderPayload ==
    IF sess.header = Null \/ sess.threw THEN Null
    ELSE IF FindSiweCookie(sess.header.cookies) = Undefined THEN Null
    ELSE decodeAndVerifySiweCookie(FindSiweCookie(sess.header.cookies).value,
                                   sess.key, sess.at)

\* C20: without a federated session getSession returns null for every cookie
\* header, the decoder throwing included, and a wallet session only when the
\* decoder returned a payload with a non-empty uid; it never ends in an error.
C20_FallbackNeverThrows ==
    (sess.op = "getSession" /\ ~HasUserId(sess.fed)) =>
        IF DecoderPayload # Null /\ DecoderPayload.uid # ""
        THEN sess.result = WalletSession(DecoderPayload)
        ELSE sess.result = Null

C20_Witness ==
    /\ sess.op = "getSession"
    /\ sess.fed = Null
    /\ sess.threw
    /\ FindSiweCookie(sess.header.cookies).value
           = encodeSignedSiweCookie(GoodPayload, sess.key)
    /\ sess.result = Null

(***************************************************************************)
(* Claims about the responses of POST verify.                              *)
(***************************************************************************)
\* the request ended without a session for one of: signer mismatch, domain
\* mismatch, nonce unknown or used, message that does not parse
FailedVerify(r) ==
    /\ req[r].pc = "done"
    /\ req[r].response.status # 200
    /\ req[r].response # JsonError(400, "Missing message or signature")

\* C21: any two verify requests that fail (signer mismatch, domain mismatch,
\* nonce unknown or already used, malformed message) get the same status
\* code and the same response body.
C21_FailuresIndistinguishable ==
    \A r, q \in ReqIds :
        (FailedVerify(r) /\ FailedVerify(q)) => req[r].response = req[q].response

(***************************************************************************)
(* Claims about the nonce store: no store configured, and the TTL.         *)
(***************************************************************************)
\* the user store refused the insert of r (a row for the wallet was there)
InsertRefused(r) ==
    /\ req[r].response = JsonError(500, "Verification failed")
    /\ WalletAddressTaken(users, toChecksumLower(req[r].address))

\* a verified request skips the nonce lookup and ends with a session cookie,
\* the refused insert of a wallet's second row apart
SkipsNonceCheck(r) ==
    Verified(r) =>
        /\ req[r].pc \in {"select", "insert", "done"}
        /\ ~RejectedForNonce(r)
        /\ req[r].pc = "done" =>
              \/ req[r].response.status = 200 /\ req[r].response.cookie # Null
              \/ InsertRefused(r)

NonceIssueStep(n) ==
    (n \notin issued /\ n \in issued') => store'[n] = now + NONCE_TTL_SECONDS

\* once issued, the expiry of n is never moved; once n is not in the store
\* (consumed or evicted) it is never in the store again
NonceNeverRevived(n) ==
    n \in issued =>
        /\ store'[n] \in {store[n], 0}
        /\ ~RedisGet(n) => ~RedisGet(n)'

\* the nonce check of r runs in this step at or after the expiry of its
\* nonce: r is rejected with 401
ExpiredNonceRejected(r) ==
    (/\ req[r].pc = "get" /\ req'[r].pc # "get"
     /\ req[r].nonce \in issued
     /\ now >= store[req[r].nonce])
    => req'[r].pc = "done" /\ req'[r].response = JsonError(401, "Nonce expired/used")

\* C23: with the shared store in use a nonce is stored at issuance with a TTL
\* of 300 seconds; a verify request whose nonce check runs 300 seconds or
\* more after issuance is rejected, consumed before or not, and a nonce that
\* was consumed or evicted never becomes consumable again.
C23_NonceExpiresForGood ==
    [][RedisInUse =>
          /\ \A n \in Nonces : NonceIssueStep(n) /\ NonceNeverRevived(n)
          /\ \A r \in ReqIds : ExpiredNonceRejected(r)]_vars

C23_Witness ==
    /\ RedisInUse
    /\ now = NONCE_TTL_SECONDS + 1
    /\ \E r \in ReqIds :
          /\ Verified(r)
          /\ req[r].nonce \in issued
          /\ store[req[r].nonce] = NONCE_TTL_SECONDS
          /\ req[r].begun = {}
          /\ RejectedForNonce(r)

(***************************************************************************)
(* Claims about the session cookie and the user record of a verify.        *)
(***************************************************************************)
\* verify answers r with { ok: true } in this step
SucceedsNow(r) ==
    /\ req[r].pc # "done"
    /\ req'[r].pc = "done"
    /\ req'[r].response.status = 200

\* the lowercase spelling of a wallet address
Lowercased(addr) == IF addr \in {"0xAb", "0xab"} THEN "0xab" ELSE "0xcd"

\* the payload inside a cookie value, read without checking the signature
PayloadOf(value) == JSONParse(base64urlDecodeToString(value.parts[1]))

\* C25: the cookie of a successful verify carries uid = the id of the user
\* record of the wallet, addr = the lowercased message address, iat = the
\* current time in seconds and exp = iat + 86400 > iat; it is named
\* siwe_session and set httpOnly, secure, sameSite lax, path /, maxAge 86400.
C25_MintedCookie ==
    [][\A r \in ReqIds :
          SucceedsNow(r) =>
              LET cookie == req'[r].response.cookie
                  p == PayloadOf(cookie.value)
              IN  /\ cookie.value = encodeSignedSiweCookie(p, cachedKey')
                  /\ DOMAIN p = {"uid", "addr", "iat", "exp"}
                  /\ p.addr = Lowercased(req[r].address)
                  /\ \E u \in users' : u.walletAddress = p.addr /\ u.id = p.uid
                  /\ p.iat = now
                  /\ p.exp = p.iat + 86400
                  /\ p.exp > p.iat
                  /\ cookie.name = "siwe_session"
                  /\ cookie.httpOnly /\ cookie.secure
                  /\ cookie.sameSite = "lax" /\ cookie.path = "/"
                  /\ cookie.maxAge = 86400]_vars

C25_Witness ==
    \E r \in ReqIds :
        /\ req[r].pc = "done"
        /\ req[r].response.status = 200
        /\ req[r].address = "0xAb"
        /\ PayloadOf(req[r].response.cookie.value)
               = [uid |-> req[r].uid, addr |-> "0xab", iat |-> NONCE_TTL_SECONDS,
                  exp |-> NONCE_TTL_SECONDS + 86400]

\* the user record verify creates for a wallet that has none
NewWalletUser(id, address) ==
    [id |-> id, name |-> "Wallet " \o address \o "..." \o address,
     email |-> address \o "@wallet.user", emailVerified |-> TRUE, image |-> Null,
     walletAddress |-> address]

\* the successful verify of r in this step: no write and the existing id when
\* the wallet has a user, exactly one new record otherwise
UpsertStep(r) ==
    SucceedsNow(r) =>
        LET address == Lowercased(req[r].address)
            existing == {u \in users : u.walletAddress = address}
            uid == PayloadOf(req'[r].response.cookie.value).uid
        IN  IF existing # {}
            THEN /\ users' = users
                 /\ uid \in {u.id : u \in existing}
            ELSE /\ users' = users \cup {NewWalletUser(uid, address)}
                 /\ \A u \in users : u.id # uid

\* one user per wallet, whatever the spelling of the address in the message
OneUserPerWallet ==
    /\ \A u, v \in users : u.walletAddress = v.walletAddress => u = v
    /\ \A r, q \in ReqIds :
          (/\ req[r].pc = "done" /\ req[r].response.status = 200
           /\ req[q].pc = "done" /\ req[q].response.status = 200
           /\ Lowercased(req[r].address) = Lowercased(req[q].address))
          => req[r].uid = req[q].uid

DecodeStep ==
    /\ last'.op \in {"decodeNode", "decodeEdge"}
    /\ now' = now /\ env' = env

\* the value is null, undefined, empty, not two segments, or its first
\* segment is not the base64url of a JSON object with uid, addr, iat and exp
Unusable(v) ==
    \/ v \in {Null, Undefined, Value(<<EmptySeg>>)}
    \/ Len(v.parts) # 2
    \/ v.parts[1].t # "b64"
    \/ v.parts[1].bytes.t # "utf8"
    \/ v.parts[1].bytes.text.t # "json"
    \/ \E f \in {"uid", "addr", "iat", "exp"} :
           \A i \in DOMAIN v.parts[1].bytes.text.members :
               v.parts[1].bytes.text.members[i][1] # f

\* a decoder call never throws and answers an unusable value with null
DecoderTotal ==
    DecodeStep =>
        /\ last'.result # Throw
        /\ Unusable(last'.arg) => last'.result = Null

\* C27: each decoder is total (never throws; null, undefined, the empty
\* string, a token without exactly two segments, invalid base64url, invalid
\* JSON and a payload missing uid, addr, iat or exp all give null) and a
\* decoder call changes nothing: not the clock, the environment or the key
\* the runtime holds.
C27_DecoderTotalNoSideEffect ==
    [][DecoderTotal /\ (DecodeStep => cachedKey' = cachedKey)]_vars

\* a call of one of the four codec functions ran in this step
CodecCallStep ==
    /\ last'.op \in {"encodeNode", "encodeEdge", "decodeNode", "decodeEdge"}
    /\ now' = now /\ env' = env

\* C28: with no signing secret configured (no explicit secret of at least
\* 32 characters and no base secret) neither codec mints a token (the
\* encoder ends in an error) and neither accepts one (the decoder returns
\* null).
C28_MissingSecretFailsClosed ==
    [][(CodecCallStep /\ ~HasSecret(env)) =>
          IF last'.op \in {"encodeNode", "encodeEdge"}
          THEN last'.result = Throw
          ELSE last'.result = Null]_vars

(***************************************************************************)
(* Claims about the resolver's configuration and its transport.            *)
(***************************************************************************)
\* C29: with no gating contract address configured every call of the
\* resolver, for every wallet, ends with VERIFICATION_FAILED before any
\* chain read is issued and yields no result.
C29_MissingContractFailsClosed ==
    (nftEnv.contract = "" /\ rv.pc # "idle") =>
        /\ rv.pc = "done"
        /\ rv.result = VerificationFailed
        /\ rv.reads = <<>>

C29_Witness ==
    /\ nftEnv.contract = ""
    /\ rv.pc = "done"
    /\ rv.wallet = "0xAb"
    /\ OwnedBy(chain, rv.wallet) = {7}
    /\ rv.result = VerificationFailed
    /\ rv.reads = <<>>

\* a read of the call saw two attempts in a row time out
TimedOutTwice == \E i \in DOMAIN rv.tries : rv.tries[i] >= 2

\* C24: a call of the resolver in which two consecutive attempts of a read
\* timed out ends with VERIFICATION_FAILED (so that the guard denies and the
\* wrapped operation does not run).
C24_TwoTimeoutsFailClosed ==
    (rv.pc = "done" /\ TimedOutTwice) => rv.result = VerificationFailed

\* the last attempt the transport is allowed fails in this step
BudgetExhausted(step) ==
    /\ rv.pc = step
    /\ rv.attempts = retryCount
    /\ step \in rv'.failed

\* no read is retried more than retryCount times, and a call issues at most
\* five reads
BoundedReads ==
    /\ rv.attempts <= retryCount
    /\ \A i \in DOMAIN rv.tries : rv.tries[i] <= retryCount
    /\ Len(rv.reads) <= 5

\* C30: each read is retried at most 3 times; the exhausted retry budget of
\* a required read ends the call with VERIFICATION_FAILED; a call issues at
\* most five chain reads; every call of the resolver ends.
C30_ResolveTerminates ==
    /\ []BoundedReads
    /\ [][\A step \in RequiredReads :
             BudgetExhausted(step) =>
                 rv'.pc = "done" /\ rv'.result = VerificationFailed]_vars
    /\ (rv.pc \in ReadSteps) ~> (rv.pc = "done")

(***************************************************************************)
(* Claims about two verify requests of one wallet running concurrently.    *)
(***************************************************************************)
\* r and q are verified requests of one wallet with different issued nonces,
\* neither of which had ended when the other began, and both got past the
\* nonce check and have ended
ConcurrentFirstVerifies(r, q) ==
    /\ r # q
    /\ Verified(r) /\ Verified(q)
    /\ Lowercased(req[r].address) = Lowercased(req[q].address)
    /\ req[r].nonce \in issued /\ req[q].nonce \in issued
    /\ req[r].nonce # req[q].nonce
    /\ q \notin req[r].finished /\ r \notin req[q].finished
    /\ req[r].pc = "done" /\ req[q].pc = "done"
    /\ ~RejectedForNonce(r) /\ ~RejectedForNonce(q)

\* C31: two concurrent verify requests of one wallet with different valid
\* nonces leave at most one user record with that wallet address, and both
\* are answered with a cookie carrying the same subject id, under every
\* interleaving of their lookups and inserts.
C31_OneUserUnderConcurrency ==
    \A r, q \in ReqIds :
        ConcurrentFirstVerifies(r, q) =>
            /\ Cardinality({u \in users :
                   u.walletAddress = Lowercased(req[r].address)}) <= 1
            /\ req[r].response.status = 200 /\ req[q].response.status = 200
            /\ PayloadOf(req[r].response.cookie.value).uid
                   = PayloadOf(req[q].response.cookie.value).uid

(***************************************************************************)
(* Claims about the ownership confirmation of the resolver.                *)
(***************************************************************************)
\* the confirming ownerOf read of the call is answered in this step
ConfirmAnswered ==
    /\ rv.pc = "confirm" /\ rv'.pc # "confirm"
    /\ "confirm" \notin rv'.failed
    /\ ~OwnerOfReverts(chain, rv.tokenIdentifier.v)

\* the holder of the token the call resolved is the requested wallet,
\* whatever the case of the letters
ConfirmedHolder ==
    Lowercased(ownerOf(chain, rv.tokenIdentifier.v)) = Lowercased(rv.wallet)

\* C32: the call returns owns:true for token t only after an ownerOf(t)
\* read, issued after the enumeration or the fallback probe, returned the
\* requested wallet (compared case-insensitively); when that read returns
\* another owner the call returns hasNonFungibleToken = false, tier none,
\* isOwner = false with the balance read earlier as ownedTokenCount.
C32_OwnershipReconfirmed ==
    [][/\ (ConfirmAnswered /\ ~ConfirmedHolder) =>
              /\ rv'.pc = "done"
              /\ rv'.result = [hasNonFungibleToken |-> FALSE, tier |-> "none",
                               ownedTokenCount |-> rv.ownedTokenCount,
                               isOwner |-> FALSE]
       /\ (rv'.pc = "uri" /\ rv.pc # "uri") =>
              ConfirmAnswered /\ ConfirmedHolder
       /\ (/\ rv.pc # "done" /\ rv'.pc = "done"
           /\ rv'.result # VerificationFailed
           /\ rv'.result.hasNonFungibleToken) =>
              /\ rv.pc = "uri"
              /\ rv'.result.tokenIdentifier = rv.tokenIdentifier.v
              /\ rv'.reads[Len(rv'.reads) - 1] = "ownerOf"]_vars

C32_Witness ==
    /\ rv.pc = "done"
    /\ rv.wallet = "0xAb"
    /\ rv.reads = <<"balanceOf", "tokenOfOwnerByIndex", "ownerOf">>
    /\ rv.failed = {}
    /\ rv.tokenIdentifier = Num(7)
    /\ chain.owner[7] = "0xCd"
    /\ rv.result = NotOwner(BigInt(1))

(***************************************************************************)
(* Claims about the session probe.                                         *)
(***************************************************************************)
\* the payload of the wallet cookie of the probed request, Null when the
\* request has no wallet cookie the decoder accepts
ProbedWallet ==
    IF sess.header = Null THEN Null
    ELSE IF FindSiweCookie(sess.header.cookies) = Undefined THEN Null
    ELSE decodeAndVerifySiweCookie(FindSiweCookie(sess.header.cookies).value,
                                   sess.key, sess.at)

\* C33: for a request without a federated session GET /api/auth/me answers
\* userId = u and walletAddress = a when the request carries a valid wallet
\* cookie with uid u and address a, and userId, email and walletAddress all
\* null when it carries none; the status is never an error status.
C33_ProbeReportsWallet ==
    sess.op = "me" =>
        /\ sess.result.status = 200
        /\ ~HasUserId(sess.fed) =>
              IF ProbedWallet # Null
              THEN /\ sess.result.userId = Str(ProbedWallet.uid)
                   /\ sess.result.walletAddress = Str(ProbedWallet.addr)
              ELSE sess.result = NobodyResponse

(***************************************************************************)
(* OAuth disconnect, POST /api/auth/oauth/disconnect (route.ts).           *)
(***************************************************************************)
\* account.providerId: the provider's name, or the name, '-' and an account
ProviderId(provider, account) == [provider |-> provider, account |-> account]

AccountRow(userId, providerId) == [userId |-> userId, providerId |-> providerId]

\* what checkHybridAuth answers: no success, or the user it established
HybridAuths ==
    {[success |-> FALSE, userId |-> ""], [success |-> TRUE, userId |-> ""],
     [success |-> TRUE, userId |-> "user_1"], [success |-> TRUE, userId |-> "user_2"]}

\* request bodies: Throw when request.json() rejects
DisconnectBodies ==
    {Throw}
    \cup {[provider |-> p, providerId |-> i] :
              p \in {"", "google"}, i \in {Null, ProviderId("google", "work")}}

\* cookie headers of a disconnect request: none, a wallet cookie minted here
\* for user_1, the same expired, one signed by somebody else
DisconnectHeaders ==
    {Null}
    \cup {CookieHeader(<<Cookie("siwe_session", v)>>) :
              v \in {encodeSignedSiweCookie(GoodPayload, DeriveKeyNode(DefaultEnv)),
                     encodeSignedSiweCookie([GoodPayload EXCEPT !.exp = 1],
                                            DeriveKeyNode(DefaultEnv)),
                     encodeSignedSiweCookie(GoodPayload, ForgerKey)}}

\* the rows of the account table at the start
LinkedAccounts ==
    {AccountRow(u, i) :
         u \in {"user_1", "user_2"},
         i \in {ProviderId("google", ""), ProviderId("google", "work"),
                ProviderId("github", "")}}

\* the WHERE clause: account.userId = userId and either the given providerId,
\* or providerId = provider or providerId like provider-%
DisconnectMatches(row, userId, body) ==
    /\ row.userId = userId
    /\ IF body.providerId # Null THEN row.providerId = body.providerId
       ELSE row.providerId.provider = body.provider

\* the user whose rows are deleted: the one of checkHybridAuth, replaced by
\* the uid of the request's wallet cookie when that decodes to another one
\* (throws: the decoder throws and the empty catch keeps the first)
DisconnectUserId(hybrid, header, key, nowSec, throws) ==
    LET siweCookie == IF header = Null THEN Undefined ELSE FindSiweCookie(header.cookies)
        parsed == decodeAndVerifySiweCookie(
                      IF siweCookie = Undefined THEN Undefined ELSE siweCookie.value,
                      key, nowSec)
    IN  IF ~throws /\ ~Falsy(parsed, "uid") /\ parsed.uid # hybrid.userId
        THEN parsed.uid ELSE hybrid.userId

\* POST: 401 without an authenticated user, 500 when the body cannot be
\* read or the delete fails (fails), 400 without a provider, else the delete
\* and 200
Disconnect(hybrid, header, body, throws, fails) ==
    LET key == getInternalApiSecretKey(env, cachedKey)
        siweCookie == IF header = Null THEN Undefined ELSE FindSiweCookie(header.cookies)
        authenticated == hybrid.success /\ hybrid.userId # ""
        userId == DisconnectUserId(hybrid, header, key, now, throws)
        rows == IF body = Throw \/ body.provider = "" \/ fails THEN {}
                ELSE {row \in dc.accounts : DisconnectMatches(row, userId, body)}
        response ==
            IF ~authenticated THEN JsonError(401, "User not authenticated")
            ELSE IF body = Throw THEN JsonError(500, "Internal server error")
            ELSE IF body.provider = "" THEN JsonError(400, "Provider is required")
            ELSE IF fails THEN JsonError(500, "Internal server error")
            ELSE [status |-> 200, success |-> TRUE]
    IN  /\ dc' = [accounts |-> IF authenticated THEN dc.accounts \ rows ELSE dc.accounts,
                  call |-> [hybrid |-> hybrid, header |-> header, body |-> body,
                            deleted |-> IF authenticated THEN rows ELSE {},
                            response |-> response, at |-> now]]
        /\ cachedKey' = IF authenticated /\ ~throws /\ siweCookie # Undefined
                           /\ Len(siweCookie.value.parts) = 2
                        THEN key ELSE cachedKey
        /\ UNCHANGED <<now, env, handshakeVars, codecVars, sessionVars, resolveVars,
                       guardVars, tierVars, st, wh, poll, knowledgeVars>>

\* the clock of the disconnect requests
DisconnectTick ==
    /\ now < MaxClock
    /\ now' = now + 1
    /\ UNCHANGED <<env, cachedKey, handshakeVars, codecVars, sessionVars, resolveVars,
                   guardVars, tierVars, routeVars, knowledgeVars>>

\* the sign-in, the resolver and the guard have not been used
AuthIdle ==
    /\ now = 1
    /\ env = DefaultEnv
    /\ cachedKey = Null
    /\ redisUrl = FALSE
    /\ redisClient = FALSE
    /\ store = [n \in Nonces |-> 0]
    /\ issued = {}
    /\ users = {}
    /\ req = [r \in ReqIds |-> IdleReq]
    /\ last = NoCall
    /\ sess = NoSessionCall
    /\ chain = EmptyChain
    /\ nftEnv = NoNftEnv
    /\ rv = IdleRun
    /\ access = Null
    /\ gd = IdleGuard
    /\ tc = NoTierCall

InitDisconnect ==
    /\ AuthIdle
    /\ dc = [accounts |-> LinkedAccounts, call |-> Null]
    /\ st = IdleSocketToken
    /\ wh = IdleWebhook
    /\ poll = IdlePoll
    /\ kb = IdleKnowledge
    /\ kl = IdleList

NextDisconnect ==
    \/ \E hybrid \in HybridAuths, header \in DisconnectHeaders, body \in DisconnectBodies,
          throws \in BOOLEAN, fails \in BOOLEAN :
          Disconnect(hybrid, header, body, throws, fails)
    \/ DisconnectTick

SpecDisconnect == InitDisconnect /\ [][NextDisconnect]_vars

\* C34: the account rows a disconnect request deletes all belong to the
\* user id checkHybridAuth established for that request, whatever wallet
\* cookie the request carries.
C34_DisconnectKeepsIdentity ==
    dc.call # Null => \A row \in dc.call.deleted : row.userId = dc.call.hybrid.userId

(***************************************************************************)
(* The socket token, POST /api/auth/socket-token (part_013).               *)
(***************************************************************************)
AuthenticationRequired == JsonError(401, "Authentication required")

\* what auth.api.generateOneTimeToken answers: nothing, a token, or it throws
OneTimeTokens == {Null, Throw, [token |-> "one-time-token"]}

\* the lifetime of a minted socket token: setExpirationTime('5m')
SocketTokenSeconds == 300

\* new SignJWT({type: 'socket', userId}) signed HS256 with the internal key
SocketJwt(userId, key, nowSec) ==
    [type |-> "socket", userId |-> userId, alg |-> "HS256", key |-> key,
     iat |-> nowSec, exp |-> nowSec + SocketTokenSeconds]

\* mutant: the fallback mints a token for whatever the cookie decoded to
socketFallbackUnchecked(siwe, key, nowSec, signFails) ==
    IF signFails THEN AuthenticationRequired
    ELSE [status |-> 200,
          token |-> SocketJwt(IF Falsy(siwe, "uid") THEN "" ELSE siwe.uid, key, nowSec)]

\* the wallet fallback of both paths: no uid, or a failing signature, is 401
socketFallback(siwe, key, nowSec, signFails) ==
    IF Falsy(siwe, "uid") \/ signFails THEN AuthenticationRequired
    ELSE [status |-> 200, token |-> SocketJwt(siwe.uid, key, nowSec)]

\* POST: the provider's token when it gave one; without one the wallet cookie
\* of the request; when the provider or the first decoding threw (throws), the
\* same fallback once more in the catch block (rethrows: it throws again)
SocketToken(provider, header, throws, rethrows, signFails) ==
    LET key == getInternalApiSecretKey(env, cachedKey)
        siweCookie == IF header = Null THEN Undefined ELSE FindSiweCookie(header.cookies)
        siwe == decodeAndVerifySiweCookie(
                    IF siweCookie = Undefined THEN Undefined ELSE siweCookie.value, key, now)
        caught == provider = Throw \/ (provider = Null /\ throws)
        decoded == (provider = Null /\ ~throws) \/ (caught /\ ~rethrows)
        response ==
            IF provider \notin {Null, Throw} THEN [status |-> 200, token |-> provider.token]
            ELSE IF ~decoded THEN AuthenticationRequired
            ELSE socketFallback(siwe, key, now, signFails)
    IN  /\ st' = [call |-> [provider |-> provider, header |-> header, response |-> response,
                            key |-> key, at |-> now]]
        /\ cachedKey' = IF decoded /\ siweCookie # Undefined
                           /\ Len(siweCookie.value.parts) = 2
                        THEN key ELSE cachedKey
        /\ UNCHANGED <<now, env, handshakeVars, codecVars, sessionVars, resolveVars,
                       guardVars, tierVars, dc, wh, poll, knowledgeVars>>

NextSocketToken ==
    \/ \E provider \in OneTimeTokens, header \in Headers,
          throws \in BOOLEAN, rethrows \in BOOLEAN, signFails \in BOOLEAN :
          SocketToken(provider, header, throws, rethrows, signFails)
    \/ \E e \in Envs : SessionSetEnv(e)
    \/ SessionTick

SpecSocketToken == InitCodec /\ [][NextSocketToken]_vars

\* the payload of the request's wallet cookie when the decoder accepts it
SocketWallet ==
    LET siweCookie == IF st.call.header = Null THEN Undefined
                      ELSE FindSiweCookie(st.call.header.cookies)
    IN  IF siweCookie = Undefined THEN Null
        ELSE decodeAndVerifySiweCookie(siweCookie.value, st.call.key, st.call.at)

\* C35: POST socket-token answers with a token only when the provider
\* generated a one-time token (then that token) or the request carries a
\* wallet cookie the decoder accepts (then a socket token whose userId is the
\* cookie's uid); every other response is 401 'Authentication required'.
C35_SocketTokenOnlyAuthenticated ==
    st.call # Null =>
        IF st.call.response.status = 200
        THEN \/ /\ st.call.provider \notin {Null, Throw}
                /\ st.call.response.token = st.call.provider.token
             \/ /\ st.call.provider \in {Null, Throw}
                /\ ~Falsy(SocketWallet, "uid")
                /\ st.call.response.token.type = "socket"
                /\ st.call.response.token.userId = SocketWallet.uid
        ELSE st.call.response = AuthenticationRequired

\* C35 witness: the provider threw, the request carries a valid wallet cookie
\* and the response is a socket token for the cookie's user
C35_Witness ==
    /\ st.call # Null
    /\ st.call.provider = Throw
    /\ st.call.response.status = 200
    /\ st.call.response.token.userId = GoodPayload.uid

(***************************************************************************)
(* The Conductor webhook, POST (part_013).                                 *)
(***************************************************************************)
\* values of process.env.CONDUCTOR_WEBHOOK_SECRET: "" stands for unset too
WebhookSecrets == {"", "s3cret", "other"}

\* values of the Authorization header: none, the bearer form of each secret
\* (of the empty one too), a bare secret, another scheme, another case
AuthorizationHeaders ==
    {Null}
    \cup {Str("Bearer " \o s) : s \in WebhookSecrets}
    \cup {Str("s3cret"), Str("Basic s3cret"), Str("bearer s3cret"), Str("Bearer s3cret ")}

Commands == {"start", "status", "pause", "resume", "approve", "reject", "help"}

\* request bodies: Throw when request.json() rejects; valid says whether
\* ConductorCommandSchema.parse accepts the body
WebhookBodies ==
    {Throw}
    \cup {[valid |-> FALSE, command |-> "deploy", storyId |-> ""]}
    \cup {[valid |-> TRUE, command |-> c, storyId |-> i] :
              c \in Commands, i \in {"", "STORY-123"}}

\* mutant: any bearer header is let through
WebhookAuthorizedAnyBearer(authHeader, expectedSecret) ==
    authHeader \in {Str("Bearer " \o s) : s \in WebhookSecrets}

\* authHeader === `Bearer ${expectedSecret}`
WebhookAuthorized(authHeader, expectedSecret) ==
    authHeader = Str("Bearer " \o expectedSecret)

\* the response of the handler of a command
HandleCommand(body) ==
    IF body.command = "start" /\ body.storyId = ""
    THEN JsonError(400, "Story ID required for start command")
    ELSE [status |-> 200, success |-> TRUE, command |-> body.command]

\* POST: the secret check first, then the body, its validation and the
\* handler of the command; what the body or the validation throws is a 500
\* with the message of the error
Webhook(authHeader, body) ==
    LET expectedSecret == wh.secret
        passed == expectedSecret # "" /\ WebhookAuthorized(authHeader, expectedSecret)
        handled == passed /\ body # Throw /\ body.valid
        response ==
            IF expectedSecret = "" THEN JsonError(500, "Server configuration error")
            ELSE IF ~passed THEN JsonError(401, "Unauthorized")
            ELSE IF body = Throw THEN JsonError(500, "Unexpected end of JSON input")
            ELSE IF ~body.valid THEN JsonError(500, "Invalid enum value")
            ELSE HandleCommand(body)
    IN  /\ wh' = [wh EXCEPT !.call = [authHeader |-> authHeader, body |-> body,
                                      secret |-> expectedSecret, parsed |-> passed,
                                      handler |-> IF handled THEN body.command ELSE "",
                                      response |-> response]]
        /\ UNCHANGED <<now, env, cachedKey, handshakeVars, codecVars, sessionVars,
                       resolveVars, guardVars, tierVars, dc, st, poll, knowledgeVars>>

\* the deployment sets, changes or removes the secret
SetWebhookSecret(s) ==
    /\ s # wh.secret
    /\ wh' = [wh EXCEPT !.secret = s]
    /\ UNCHANGED <<now, env, cachedKey, handshakeVars, codecVars, sessionVars,
                   resolveVars, guardVars, tierVars, dc, st, poll, knowledgeVars>>

NextWebhook ==
    \/ \E authHeader \in AuthorizationHeaders, body \in WebhookBodies :
          Webhook(authHeader, body)
    \/ \E s \in WebhookSecrets : SetWebhookSecret(s)

InitWebhook ==
    /\ AuthIdle
    /\ dc = IdleDisconnect
    /\ st = IdleSocketToken
    /\ wh \in {[secret |-> s, call |-> Null] : s \in WebhookSecrets}
    /\ poll = IdlePoll
    /\ kb = IdleKnowledge
    /\ kl = IdleList

SpecWebhook == InitWebhook /\ [][NextWebhook]_vars

DefaultMaxWaitMinutes == 30
DefaultPollIntervalSeconds == 30

\* how long a poll request takes at most
MaxRequestSeconds == 15

\* values of params.maxWaitMinutes and params.pollIntervalSeconds: 0 is unset
MaxWaitMinutesParams == {0, 1}
PollIntervalSecondsParams == {0, 20}

\* what a poll request ends with: a network error, a response that is not
\* OK, or an OK body: not completed, completed, status 'error'
PollResponses == {"network", "notOk", "pending", "completed", "error"}

RequestSeconds == {0, MaxRequestSeconds}

\* Math.round((Date.now() - startTime) / 60000)
RoundMinutes(seconds) == (seconds + 30) \div 60

\* mutant: the tool reports success whatever the poll result
PollOutputSuccess(pollResult) ==
    [success |-> TRUE,
     output |-> [completed |-> pollResult.completed,
                 completionSignal |-> pollResult.signal,
                 elapsedMinutes |-> pollResult.elapsedMinutes,
                 timedOut |-> ~pollResult.completed]]

\* what transformResponse returns for a poll result
PollOutput(pollResult) ==
    [success |-> pollResult.completed,
     output |-> [completed |-> pollResult.completed,
                 completionSignal |-> pollResult.signal,
                 elapsedMinutes |-> pollResult.elapsedMinutes,
                 timedOut |-> ~pollResult.completed]]

\* transformResponse for wait_for_signal with status 'polling': pollForSignal
\* starts with the defaults filled in
StartPoll(maxWaitMinutes, pollIntervalSeconds) ==
    /\ poll.pc = "idle"
    /\ poll' = [IdlePoll EXCEPT
                   !.pc = "loop",
                   !.maxWait = 60 * (IF maxWaitMinutes = 0 THEN DefaultMaxWaitMinutes
                                     ELSE maxWaitMinutes),
                   !.pollInterval = IF pollIntervalSeconds = 0
                                    THEN DefaultPollIntervalSeconds ELSE pollIntervalSeconds]
    /\ UNCHANGED <<now, env, cachedKey, handshakeVars, codecVars, sessionVars,
                   resolveVars, guardVars, tierVars, dc, st, wh, knowledgeVars>>

\* the loop condition holds: the sleep, then the request is issued
PollSleep ==
    /\ poll.pc = "loop"
    /\ poll.elapsed < poll.maxWait
    /\ poll' = [poll EXCEPT !.pc = "fetch", !.elapsed = @ + poll.pollInterval]
    /\ UNCHANGED <<now, env, cachedKey, handshakeVars, codecVars, sessionVars,
                   resolveVars, guardVars, tierVars, dc, st, wh, knowledgeVars>>

\* how the loop goes on after a response
AfterResponse(response) == IF response = "completed" THEN "done" ELSE "loop"

\* the request ends after d seconds: completed returns, everything else goes
\* back to the loop condition (the throw for status 'error' is inside the try
\* block whose catch continues polling); minutes is data.elapsedMinutes
PollResponse(response, d, signal, minutes) ==
    /\ poll.pc = "fetch"
    /\ LET elapsed == poll.elapsed + d
           result == IF response = "completed"
                     THEN [completed |-> TRUE, signal |-> Str(signal),
                           elapsedMinutes |-> IF minutes # 0 THEN minutes
                                              ELSE RoundMinutes(elapsed)]
                     ELSE Null
       IN  poll' = [poll EXCEPT !.pc = AfterResponse(response), !.elapsed = elapsed,
                                !.last = response, !.result = result,
                                !.out = IF result = Null THEN Null ELSE PollOutput(result)]
    /\ UNCHANGED <<now, env, cachedKey, handshakeVars, codecVars, sessionVars,
                   resolveVars, guardVars, tierVars, dc, st, wh, knowledgeVars>>

\* the loop condition fails: timed out
PollTimeOut ==
    /\ poll.pc = "loop"
    /\ poll.elapsed >= poll.maxWait
    /\ LET result == [completed |-> FALSE, signal |-> Undefined,
                      elapsedMinutes |-> RoundMinutes(poll.elapsed)]
       IN  poll' = [poll EXCEPT !.pc = "done", !.result = result, !.out = PollOutput(result)]
    /\ UNCHANGED <<now, env, cachedKey, handshakeVars, codecVars, sessionVars,
                   resolveVars, guardVars, tierVars, dc, st, wh, knowledgeVars>>

PollStep ==
    \/ PollSleep
    \/ \E response \in PollResponses, d \in RequestSeconds, signal \in {"approved"},
          minutes \in {0, 5} :
          PollResponse(response, d, signal, minutes)
    \/ PollTimeOut

NextPoll ==
    \/ \E m \in MaxWaitMinutesParams, i \in PollIntervalSecondsParams : StartPoll(m, i)
    \/ PollStep

InitPoll == AuthIdle /\ RoutesIdle

SpecPoll == InitPoll /\ [][NextPoll]_vars

\* the timer of the sleep fires and every request ends
SpecPollFair == SpecPoll /\ WF_vars(PollStep)

\* pollForSignal has returned
PollReturned == poll.pc = "done"

\* no run is later than the deadline by more than one sleep and one request,
\* a run that gave up had reached the deadline, the result is completed
\* exactly when the last response was, and the tool reports it as it is
PollWithinDeadline ==
    /\ poll.elapsed <= poll.maxWait + poll.pollInterval + MaxRequestSeconds
    /\ PollReturned =>
          /\ poll.result.completed <=> poll.last = "completed"
          /\ ~poll.result.completed => poll.elapsed >= poll.maxWait
          /\ poll.out.success = poll.result.completed
          /\ poll.out.output.completed = poll.result.completed
          /\ poll.out.output.timedOut = ~poll.result.completed

\* C37: pollForSignal returns, whatever the poll responses are, at the
\* latest one poll interval and one request after maxWaitMinutes have
\* elapsed; its result is completed only if a poll response was completed,
\* and otherwise transformResponse reports success = false, timedOut = true.
C37_PollingTerminates ==
    /\ [](PollWithinDeadline)
    /\ (poll.pc # "idle") ~> PollReturned

\* C37 witness: a run of one minute whose last request failed and that gave
\* up after the deadline
C37_Witness ==
    /\ PollReturned
    /\ poll.maxWait = 60
    /\ poll.last = "network"
    /\ poll.elapsed > poll.maxWait
    /\ poll.out.success = FALSE
    /\ poll.out.output.timedOut

\* C38: after a poll response with status 'error' no further poll request
\* is issued.
C38_ErrorStopsPolling ==
    [][poll.last = "error" => poll'.pc # "fetch"]_vars

(***************************************************************************)
(* The knowledge store: the documents cache of a knowledge base and the    *)
(* chunks cache of a document (use-user-permissions.ts).  Both caches are  *)
(* written by the same code, once for documents and once for chunks.       *)
(***************************************************************************)
CacheKinds == {"documents", "chunks"}

\* the longest cached list followed
MaxCached == 6

\* pagination of a response: hasMore and nextCursor
Pagination(hasMore, nextCursor) == [hasMore |-> hasMore, nextCursor |-> nextCursor]

\* a page of the listing: its items and its pagination
Page(items, pagination) == [items |-> items, pagination |-> pagination]

\* what the server holds: three pages, reached by the cursors c1 and c2
ServerPage(cursor) ==
    IF cursor = Str("c1") THEN Page(<<"i3", "i4">>, Pagination(TRUE, Str("c2")))
    ELSE IF cursor = Str("c2") THEN Page(<<"i5">>, Pagination(FALSE, Null))
    ELSE Page(<<"i1", "i2">>, Pagination(TRUE, Str("c1")))

\* caches a first getDocuments / getChunks leaves: none, the first page, a
\* listing that fits one page, a page that says more without a cursor
FirstCaches ==
    {Null, ServerPage(Null), Page(<<"i1">>, Pagination(FALSE, Null)),
     Page(<<"i1", "i2">>, Pagination(TRUE, Null))}

\* loadMore's guard: cached data, more results and a cursor
CanLoadMore(cached) ==
    cached # Null /\ cached.pagination.hasMore /\ cached.pagination.nextCursor # Null

\* set(...) at the end of loadMore: the current cache's items followed by
\* what getDocuments / getChunks returned, with the current pagination
Appended(currentCache, more) ==
    IF currentCache = Null THEN Null
    ELSE Page(currentCache.items \o more, currentCache.pagination)

\* loadMoreDocuments / loadMoreChunks up to the request: nothing to load
\* returns the cached items; a load in flight makes getDocuments / getChunks
\* return the cached items, which are appended; else the request is issued
LoadMore(kind) ==
    LET side == kb[kind]
        cached == side.cache
    IN  /\ cached # Null => Len(cached.items) <= MaxCached
        /\ kb' = [kb EXCEPT ![kind] =
                  IF ~CanLoadMore(cached)
                  THEN [side EXCEPT !.call = [before |-> cached, requested |-> FALSE,
                                              fetched |-> Null, returned |-> TRUE]]
                  ELSE IF side.loading
                  THEN [side EXCEPT !.cache = Appended(cached, cached.items),
                                    !.call = [before |-> cached, requested |-> FALSE,
                                              fetched |-> Null, returned |-> TRUE]]
                  ELSE [side EXCEPT !.loading = TRUE,
                                    !.cursor = cached.pagination.nextCursor,
                                    !.call = [before |-> cached, requested |-> TRUE,
                                              fetched |-> Null, returned |-> FALSE]]]
        /\ UNCHANGED <<now, env, cachedKey, handshakeVars, codecVars, sessionVars,
                       resolveVars, guardVars, tierVars, routeVars, kl>>

\* the request ends: a failure (no answer, not OK, success false) clears the
\* loading flag and is rethrown; a page replaces the cache entry, and
\* loadMore then appends the returned items to the entry it finds
FetchEnds(kind, ok) ==
    LET side == kb[kind]
        page == ServerPage(side.cursor)
    IN  /\ side.loading
        /\ kb' = [kb EXCEPT ![kind] =
                  IF ~ok THEN [side EXCEPT !.loading = FALSE, !.cursor = Null]
                  ELSE [side EXCEPT
                           !.loading = FALSE, !.cursor = Null,
                           !.cache = Appended(page, page.items),
                           !.call = IF side.call.returned THEN side.call
                                    ELSE [side.call EXCEPT !.fetched = page,
                                                           !.returned = TRUE]]]
        /\ UNCHANGED <<now, env, cachedKey, handshakeVars, codecVars, sessionVars,
                       resolveVars, guardVars, tierVars, routeVars, kl>>

InitKnowledge ==
    /\ AuthIdle
    /\ dc = IdleDisconnect
    /\ st = IdleSocketToken
    /\ wh = IdleWebhook
    /\ poll = IdlePoll
    /\ kb \in {[documents |-> [IdleCache EXCEPT !.cache = d],
                chunks |-> [IdleCache EXCEPT !.cache = c]] : d \in FirstCaches, c \in FirstCaches}
    /\ kl = IdleList

NextKnowledge ==
    \/ \E kind \in CacheKinds : LoadMore(kind)
    \/ \E kind \in CacheKinds, ok \in BOOLEAN : FetchEnds(kind, ok)

SpecKnowledge == InitKnowledge /\ [][NextKnowledge]_vars

\* C39: after a loadMore call that found hasMore and a nextCursor has fetched
\* a page, the cached list is the list cached before followed by the page's
\* items and the cached pagination is the page's; a call that found no cache,
\* no more pages or no cursor made no request and left the cache as it was.
C39_LoadMoreAppends ==
    \A kind \in CacheKinds :
        LET side == kb[kind]
        IN  (side.call # Null /\ side.call.returned /\ ~side.loading) =>
                IF CanLoadMore(side.call.before)
                THEN side.call.fetched # Null =>
                         /\ side.cache.items = side.call.before.items \o side.call.fetched.items
                         /\ side.cache.pagination = side.call.fetched.pagination
                ELSE ~side.call.requested /\ side.cache = side.call.before

(***************************************************************************)
(* useKnowledgeBasesList and the store's getKnowledgeBasesList             *)
(* (use-user-permissions.ts).  kl holds the store's flags, the hook's      *)
(* state, the dependencies the committed effect ran with, and the one      *)
(* loadData chain that can be under way: its position, attempt, isMounted. *)
(***************************************************************************)
maxRetries == 3

\* the fetches followed in one behaviour
MaxFetches == 5

\* 2 ** attempt
Pow2(attempt) == IF attempt = 0 THEN 1 ELSE IF attempt = 1 THEN 2 ELSE IF attempt = 2 THEN 4 ELSE 8

\* the effect's dependencies that can change
ListDeps == [loaded |-> kl.loaded, loading |-> kl.loading]

\* getKnowledgeBasesList answers from the store without a request
AnswersFromStore == kl.loaded \/ kl.loading

\* how a request ends: a list, a failure (network, not OK, success false),
\* or the abort of the 10 second timeout
FetchOutcomes == {"ok", "failed", "aborted"}

\* the component renders with changed dependencies (or mounts): the cleanup
\* of the previous effect clears isMounted and the retry timer, and the new
\* effect starts loadData unless the list is loaded or loading
Render ==
    /\ kl.deps # ListDeps
    /\ ~AnswersFromStore => kl.fetches < MaxFetches
    /\ kl' = IF AnswersFromStore
             THEN [kl EXCEPT !.deps = ListDeps, !.isMounted = FALSE,
                             !.pc = IF @ = "timer" THEN "none" ELSE @]
             ELSE [kl EXCEPT !.deps = ListDeps, !.isMounted = TRUE, !.attempt = 0,
                             !.error = Null, !.loading = TRUE, !.pc = "fetch",
                             !.fetches = @ + 1]
    /\ UNCHANGED <<now, env, cachedKey, handshakeVars, codecVars, sessionVars,
                   resolveVars, guardVars, tierVars, routeVars, kb>>

\* the request ends: the store marks the list loaded whatever the outcome;
\* a failure is rethrown to loadData, which, if still mounted, counts the
\* retry and arms the timer, or after maxRetries exposes the error
ListFetchEnds(outcome) ==
    /\ kl.pc = "fetch"
    /\ LET stored == [kl EXCEPT !.loading = FALSE, !.loaded = TRUE, !.last = outcome,
                                !.succeeded = @ \/ outcome = "ok",
                                !.failed = IF outcome = "failed" THEN @ + 1 ELSE @]
       IN  kl' = IF outcome # "failed"
                 THEN [stored EXCEPT !.pc = "none",
                                     !.retryCount = IF kl.isMounted THEN 0 ELSE @]
                 ELSE IF ~kl.isMounted THEN [stored EXCEPT !.pc = "none"]
                 ELSE IF kl.attempt < maxRetries
                 THEN [stored EXCEPT !.pc = "timer", !.retryCount = kl.attempt + 1,
                                     !.delay = Pow2(kl.attempt) * 1000]
                 ELSE [stored EXCEPT !.pc = "none", !.error = Str("Failed to fetch"),
                                     !.retryCount = maxRetries]
    /\ UNCHANGED <<now, env, cachedKey, handshakeVars, codecVars, sessionVars,
                   resolveVars, guardVars, tierVars, routeVars, kb>>

\* the retry timer fires: loadData(attempt + 1) clears the error and calls
\* getKnowledgeBasesList, which answers from the store when the list is
\* marked loaded (a success for loadData) and fetches otherwise
TimerFires ==
    /\ kl.pc = "timer"
    /\ kl.isMounted
    /\ ~AnswersFromStore => kl.fetches < MaxFetches
    /\ kl' = IF AnswersFromStore
             THEN [kl EXCEPT !.pc = "none", !.error = Null, !.retryCount = 0,
                             !.attempt = @ + 1, !.last = "stored"]
             ELSE [kl EXCEPT !.pc = "fetch", !.error = Null, !.attempt = @ + 1,
                             !.loading = TRUE, !.fetches = @ + 1]
    /\ UNCHANGED <<now, env, cachedKey, handshakeVars, codecVars, sessionVars,
                   resolveVars, guardVars, tierVars, routeVars, kb>>

\* clearKnowledgeBasesList: the list is emptied and marked not loaded
ClearList ==
    /\ kl.loaded
    /\ kl' = [kl EXCEPT !.loaded = FALSE]
    /\ UNCHANGED <<now, env, cachedKey, handshakeVars, codecVars, sessionVars,
                   resolveVars, guardVars, tierVars, routeVars, kb>>

InitList == AuthIdle /\ RoutesIdle

NextList ==
    \/ Render
    \/ \E outcome \in FetchOutcomes : ListFetchEnds(outcome)
    \/ TimerFires
    \/ ClearList

SpecList == InitList /\ [][NextList]_vars

\* the hook is at rest: no request, no timer, no render pending
ListAtRest == kl.pc = "none" /\ kl.deps = ListDeps

\* the hook does not come to rest after a single, failed fetch
InitialFailureRetried == ~(ListAtRest /\ kl.fetches = 1 /\ kl.failed = 1 /\ kl.loaded)

\* the error is exposed only by the failure of the last attempt
ErrorOnlyAfterLast == kl.error # Null => (kl.attempt = maxRetries /\ kl.last = "failed")

\* the retry timers are armed for 1 s, 2 s and 4 s
RetryDelays ==
    kl.pc = "timer" =>
        /\ kl.retryCount \in 1..maxRetries
        /\ kl.delay = (CASE kl.retryCount = 1 -> 1000 [] kl.retryCount = 2 -> 2000
                         [] OTHER -> 4000)

\* the retry count goes back to 0 only when a fetch has just succeeded
ResetOnlyAfterSuccess == (kl.retryCount # 0 /\ kl'.retryCount = 0) => kl'.last = "ok"

\* C40: when the initial list fetch fails, useKnowledgeBasesList fetches
\* again, up to maxRetries = 3 more times after 1 s, 2 s and 4 s, exposes the
\* error only after the last attempt failed, and resets the retry count to 0
\* only after a fetch succeeded.
C40_ListLoadRetries ==
    /\ [](InitialFailureRetried /\ ErrorOnlyAfterLast /\ RetryDelays)
    /\ [][ResetOnlyAfterSuccess]_vars

====
